---- MODULE Spec2Model ----
(***************************************************************************)
(* Shunyata central judge (central-judge-server/judge.py, the live code    *)
(* from line 153 on): judge_and_verify and what it calls, as a state       *)
(* machine over the scoreboard file, its temporary file and the judging    *)
(* requests in progress.                                                   *)
(*                                                                         *)
(* Texts (program output, expected output, source code) are sequences of   *)
(* characters.  A JSON document on disk is a head part and a tail part, so *)
(* that a file can be seen empty, half written or complete.  The record    *)
(* field "timestamp" (time.time()) is left out of the records: no          *)
(* operation of judge.py reads it.                                         *)
(***************************************************************************)
EXTENDS Integers, Sequences, FiniteSets, TLC

VARIABLES
    files,      \* the two paths of the contest_data directory: content or Absent
    pc,         \* per request slot: where judge_and_verify stands
    sub,        \* per request slot: the submission being judged
    cmd,        \* run_test_cases: the command line built for the child
    trace,      \* run_test_cases: the test cases executed so far, with their result
    upd,        \* arguments of the pending update_scoreboard call
    newdoc,     \* update_scoreboard: the board after the in-memory update
    fd,         \* save_json_atomic: which path the open file object is now known under
    ret,        \* what the last judge_and_verify call of the slot ended with
    calls,      \* per request slot: number of judge_and_verify calls started
    compiled,   \* run_test_cases: g++ was started for the submission of the slot
    log,        \* history: the submissions update_scoreboard has stored, in order
    jobs,       \* agent.py: JOB_STATUSES, job id -> status record
    wk,         \* executor.py: per run, the position and the locals of its thread
    child,      \* executor.py: per run, the child process started by Popen
    now,        \* agent.py: the value the next time.time() returns
    njobs,      \* agent.py: number of runs requested so far
    cleanups,   \* agent.py: cleanup_old_jobs threads started and not yet run
    host,       \* executor.py: PSUTIL_AVAILABLE and LOCKDOWN_AVAILABLE; lockdown.py:
                \* the platform, the firewall tool and the privilege of the process
    lockdown_state, \* lockdown.py: _lockdown_state
    firewall,   \* the Shunyata rules installed in the firewall of the host
    lcall,      \* what the last call of enable, release or emergency_cleanup
                \* made from outside the executor returned and which commands it ran
    LOCKDOWN_ACTIVE, \* agent.py: the flag of the same name
    toggled,    \* history: the /lockdown requests served in a row, the first of
                \* them an 'enable' that found the lockdown module inactive
    tmpdir,     \* run_test_cases: tmp, the working directory of the slot's execution
    dirs,       \* the working directories that exist, under SUBMISSIONS_DIR of the
                \* judge and under ./temp_exec of the agent
    norm        \* the last text normalized, with what normalize of judge.py and
                \* normalize_output of executor.py returned for it

judgeVars == <<files, pc, sub, cmd, trace, upd, newdoc, fd, ret, calls, compiled, log, tmpdir,
               norm>>
lockVars == <<lockdown_state, firewall, lcall, LOCKDOWN_ACTIVE, toggled>>
agentVars == <<jobs, wk, child, now, njobs, cleanups, host, lockVars, norm>>
vars == <<files, pc, sub, cmd, trace, upd, newdoc, fd, ret, calls, compiled, log,
          jobs, wk, child, now, njobs, cleanups, host, lockdown_state, firewall, lcall,
          LOCKDOWN_ACTIVE, toggled, tmpdir, dirs, norm>>

fsVars == <<files, fd>>
runVars == <<cmd, trace, compiled>>

-----------------------------------------------------------------------------
(* Bounds of the model *)

\* judge_and_verify calls per request slot
MaxCalls == 3

\* length of the texts handed to normalize and normalize_output
MaxLen == 4

\* readings of the clock in milliseconds, int(time.time() * 1000), that a
\* working directory can be named after
MaxMs == 1

-----------------------------------------------------------------------------
(* Values *)

Millis == 0..MaxMs

\* no working directory
NoDir == <<>>

\* no text was normalized
NoNorm == [text |-> <<>>, crlf |-> <<>>, judge |-> <<>>, judge_crlf |-> <<>>, agent |-> <<>>,
           called |-> FALSE]

\* judge.py, line 212: SUBMISSIONS_DIR / f"{sub['participant_name']}_{int(time.time()*1000)}"
JudgeDir(participant_name, t) == <<"submissions", participant_name, t>>

\* executor.py, line 83: Path(f"./temp_exec/run_{job_id}"), job_id a uuid4
AsyncDir(job_id) == <<"temp_exec", "run", "job", job_id>>

\* executor.py, line 177: Path(f"./temp_exec/run_{int(time.time() * 1000)}")
SyncDir(t) == <<"temp_exec", "run", "ms", t>>

\* Path.mkdir(parents=True, exist_ok=True): the directories after it
mkdir(d) == dirs \cup {d}

\* a removal that leaves the directory in place
rmtree_nothing(d) == dirs

\* shutil.rmtree(d, ignore_errors=True): the directories after it
rmtree(d) == dirs \ {d}

Absent == [st |-> "absent"]
NoRet == [kind |-> "none"]
NoSub == [participant_name |-> "", problem_id |-> "", language |-> "", code |-> <<>>]
NoUpd == [verdict |-> "", details |-> <<>>, plag |-> FALSE]

\* the request slots: judge_and_verify may run on two threads at once
Procs == {1, 2}

Users == {"alice", "bob"}

\* problems.json: P1 has one sample and two hidden cases, P0 has no test
\* case at all, P2 has one case without the "output" key.
Problems ==
    [P1 |-> [time_limit |-> 2, memory_limit |-> 256,
             sample_test_cases |-> << [input |-> <<"3", " ", "5">>, output |-> <<"8">>] >>,
             hidden_test_cases |-> << [input |-> <<"1", " ", "1">>, output |-> <<"2", "\n">>],
                                      [input |-> <<"0", " ", "0">>, output |-> <<"0">>] >>],
     P0 |-> [time_limit |-> 2, memory_limit |-> 256,
             sample_test_cases |-> << >>,
             hidden_test_cases |-> << >>],
     P2 |-> [time_limit |-> 3, memory_limit |-> 256,
             sample_test_cases |-> << [input |-> <<"7">>] >>,
             hidden_test_cases |-> << >>]]

\* a problem id problems.json does not hold
UnknownPid == "PX"

Verdicts == {"Accepted", "Wrong Answer", "Runtime Error", "Time Limit Exceeded",
             "Memory Limit Exceeded", "Compilation Error", "Plagiarism Detected",
             "System Error"}

\* source texts: CodeA and CodeB differ in their last character only
CodeA == <<"a", "b", "c", "d", "e", "f", "g", "h", "i", "j">>
CodeB == <<"a", "b", "c", "d", "e", "f", "g", "h", "i", "k">>
CodeC == <<"x", "y">>
\* CodeD is CodeA without its last two characters: ratio 16/18 with CodeA
CodeD == <<"a", "b", "c", "d", "e", "f", "g", "h">>
\* a program that allocates more memory than any problem allows
CodeHog == <<"h", "o", "g">>

Whitespace == {" ", "\t", "\n", "\r"}

-----------------------------------------------------------------------------
(* Pure functions of judge.py *)

RECURSIVE LStrip(_)
LStrip(t) == IF t # <<>> /\ Head(t) \in Whitespace THEN LStrip(Tail(t)) ELSE t

RECURSIVE RStrip(_)
RStrip(t) ==
    IF t # <<>> /\ t[Len(t)] \in Whitespace THEN RStrip(SubSeq(t, 1, Len(t) - 1)) ELSE t

RECURSIVE ReplaceCRLF(_)
ReplaceCRLF(t) ==
    IF t = <<>> THEN <<>>
    ELSE IF Len(t) >= 2 /\ t[1] = "\r" /\ t[2] = "\n"
         THEN <<"\n">> \o ReplaceCRLF(SubSeq(t, 3, Len(t)))
         ELSE <<Head(t)>> \o ReplaceCRLF(Tail(t))

\* a normalization that strips and leaves the line terminators as they are
strip_only(text) == RStrip(LStrip(text))

\* normalize(text): text.strip().replace("\r\n", "\n")
normalize(text) == ReplaceCRLF(RStrip(LStrip(text)))

\* the text t with each LF written as CR LF
RECURSIVE ToCRLF(_)
ToCRLF(t) ==
    IF t = <<>> THEN <<>>
    ELSE IF Head(t) = "\n" THEN <<"\r", "\n">> \o ToCRLF(Tail(t))
    ELSE <<Head(t)>> \o ToCRLF(Tail(t))

\* length of the common run of a[i..] and b[j..] inside a[..ahi], b[..bhi]
RECURSIVE RunLen(_, _, _, _, _, _)
RunLen(a, b, i, j, ahi, bhi) ==
    IF i <= ahi /\ j <= bhi /\ a[i] = b[j] THEN 1 + RunLen(a, b, i + 1, j + 1, ahi, bhi) ELSE 0

\* SequenceMatcher.find_longest_match: the longest block, the earliest in a
\* and then the earliest in b among the longest; <<i, j, k>> with k = 0 if none
find_longest_match(a, b, alo, ahi, blo, bhi) ==
    LET starts == (alo..ahi) \X (blo..bhi)
        len(s) == RunLen(a, b, s[1], s[2], ahi, bhi)
        best == IF starts = {} THEN 0
                ELSE CHOOSE k \in {len(s) : s \in starts} :
                         \A s \in starts : len(s) <= k
    IN  IF best = 0 THEN <<alo, blo, 0>>
        ELSE LET cand == {s \in starts : len(s) = best}
                 s0 == CHOOSE s \in cand :
                           \A t \in cand : s[1] < t[1] \/ (s[1] = t[1] /\ s[2] <= t[2])
             IN  <<s0[1], s0[2], best>>

\* SequenceMatcher.get_matching_blocks, summed: the number of matched characters
RECURSIVE Matches(_, _, _, _, _, _)
Matches(a, b, alo, ahi, blo, bhi) ==
    LET m == find_longest_match(a, b, alo, ahi, blo, bhi)
    IN  IF m[3] = 0 THEN 0
        ELSE Matches(a, b, alo, m[1] - 1, blo, m[2] - 1) + m[3]
             + Matches(a, b, m[1] + m[3], ahi, m[2] + m[3], bhi)

\* SequenceMatcher(None, a, b).ratio() as the fraction <<2 * matches, total length>>
ratio(a, b) ==
    IF Len(a) + Len(b) = 0 THEN <<1, 1>>
    ELSE <<2 * Matches(a, b, 1, Len(a), 1, Len(b)), Len(a) + Len(b)>>

\* the comparison with the threshold made strict
AtLeastThresholdStrict(sim) == sim[1] * 100 > 90 * sim[2]

\* sim >= SIMILARITY_THRESHOLD, the threshold being 0.90 = 90 / 100
AtLeastThreshold(sim) == sim[1] * 100 >= 90 * sim[2]


\* the decimal text of a percentage with two decimals, as f"{sim:.2%}" writes it
Percent(sim) ==
    LET bp == (sim[1] * 10000 + (sim[2] \div 2)) \div sim[2]
        frac == bp % 100
    IN  ToString(bp \div 100) \o "." \o (IF frac < 10 THEN "0" ELSE "") \o ToString(frac) \o "%"

-----------------------------------------------------------------------------
(* The scoreboard document and the files *)

\* {} : no participant
EmptyBoard == <<>>

NoPart == [set |-> FALSE, doc |-> EmptyBoard]
Part(doc) == [set |-> TRUE, doc |-> doc]

\* a file just created or truncated by open(path, "w")
EmptyFile == [st |-> "file", head |-> NoPart, tail |-> NoPart]

\* a file that holds the whole of one document
CompleteFile(doc) == [st |-> "file", head |-> Part(doc), tail |-> Part(doc)]

\* json.load succeeds on a file that holds both parts of one document
ValidJson(f) == f.st = "file" /\ f.head.set /\ f.tail.set /\ f.head.doc = f.tail.doc

\* load_json(path): {} when the file is missing or does not parse
load_json(f) == IF f.st = "file" /\ ValidJson(f) THEN f.head.doc ELSE EmptyBoard

\* a save that writes to the scoreboard path itself
TmpPathInPlace(path) == path

\* path.with_suffix(".tmp")
TmpPath(path) == "tmp"

\* dict assignment d[k] = v
Put(d, k, v) == [x \in DOMAIN d \cup {k} |-> IF x = k THEN v ELSE d[x]]

\* the record update_scoreboard builds (lines 268-274)
Record(verdict, code, details) ==
    IF details # <<>>
    THEN [verdict |-> verdict, code |-> code, details |-> details]
    ELSE [verdict |-> verdict, code |-> code]

\* an update that adds 100 to the score for every record it writes
UpdateBoardAlwaysScores(board, s, verdict, details, plag) ==
    LET user == s.participant_name
        pid == s.problem_id
        b1 == IF user \in DOMAIN board THEN board
              ELSE Put(board, user, [score |-> 0, problems_solved |-> <<>>])
        solved == Put(b1[user].problems_solved, pid, Record(verdict, s.code, details))
    IN  Put(b1, user, [score |-> b1[user].score + 100, problems_solved |-> solved])

\* update_scoreboard, lines 260-280: the board it then saves
UpdateBoard(board, s, verdict, details, plag) ==
    LET user == s.participant_name
        pid == s.problem_id
        b1 == IF user \in DOMAIN board THEN board
              ELSE Put(board, user, [score |-> 0, problems_solved |-> <<>>])
        solved == Put(b1[user].problems_solved, pid, Record(verdict, s.code, details))
        score == IF verdict = "Accepted" /\ ~plag THEN b1[user].score + 100 ELSE b1[user].score
    IN  Put(b1, user, [score |-> score, problems_solved |-> solved])

\* the comparison made with the submitter's own record only
MatchingOwnOnly(s, board) ==
    {user \in DOMAIN board :
        /\ user = s.participant_name
        /\ s.problem_id \in DOMAIN board[user].problems_solved
        /\ board[user].problems_solved[s.problem_id].code # <<>>
        /\ AtLeastThreshold(ratio(s.code, board[user].problems_solved[s.problem_id].code))}

\* check_plagiarism: the other participants whose record for the problem is too similar
Matching(s, board) ==
    {user \in DOMAIN board :
        /\ user # s.participant_name
        /\ s.problem_id \in DOMAIN board[user].problems_solved
        /\ board[user].problems_solved[s.problem_id].code # <<>>
        /\ AtLeastThreshold(ratio(s.code, board[user].problems_solved[s.problem_id].code))}

\* check_plagiarism(sub, scoreboard): (flag, message).  The loop returns at the
\* first matching participant in the board's order; with two participants at
\* most one other participant exists.
check_plagiarism(s, board) ==
    IF Matching(s, board) = {} THEN [plag |-> FALSE, msg |-> <<>>]
    ELSE LET user == CHOOSE u \in Matching(s, board) : TRUE
             sim == ratio(s.code, board[user].problems_solved[s.problem_id].code)
         IN  [plag |-> TRUE,
              msg |-> <<"Submission ", s.participant_name, " is ", Percent(sim),
                        " similar to ", user>>]

\* prob.get("sample_test_cases", []) + prob.get("hidden_test_cases", [])
Tests(pid) == Problems[pid].sample_test_cases \o Problems[pid].hidden_test_cases

\* the loop index reported as it is
TestNumberZeroBased(i) == i

\* the 1-based number run_test_cases reports for loop index i
TestNumber(i) == i + 1

Result(verdict, details) == [kind |-> "result", verdict |-> verdict, details |-> details]
Raised(exc, where) == [kind |-> "raise", exc |-> exc, where |-> where]

-----------------------------------------------------------------------------
(* The environment of one run: what the toolchain and the child can do *)

\* subprocess.run of g++ in _compile_cpp: exit status and stderr, or the
\* FileNotFoundError of a host without g++
CompileOutcomes ==
    {[rc |-> 0, stderr |-> ""], [rc |-> 1, stderr |-> "main.cpp:1: error"],
     [rc |-> 1, stderr |-> ""], [rc |-> -1, stderr |-> "FileNotFoundError"]}

\* _compile_cpp(code, dir_): (exe, err), or the exception it lets through
compile_cpp(o) ==
    IF o.rc = -1 THEN [raises |-> TRUE, exe |-> "None", err |-> ""]
    ELSE IF o.rc # 0 THEN [raises |-> FALSE, exe |-> "None", err |-> o.stderr]
    ELSE [raises |-> FALSE, exe |-> "main", err |-> ""]

\* what the child writes to stdout on a zero exit
ProgOutputs == {<<"8", "\r", "\n">>, <<"2">>, <<"0", "\n">>, <<"9">>}

\* a child's behaviour on one test case: exit code, stdout, stderr, or no exit
\* within the time limit; "nofile" is Popen failing to find the command;
\* rss_mb is the peak resident memory of the child, in megabytes
ChildOutcomes ==
    {[how |-> "exit", rc |-> 0, out |-> o, err |-> "", rss_mb |-> 64] : o \in ProgOutputs}
    \cup {[how |-> "exit", rc |-> 1, out |-> <<>>, err |-> "Traceback", rss_mb |-> 64],
          [how |-> "timeout", rc |-> 0, out |-> <<>>, err |-> "", rss_mb |-> 64],
          [how |-> "nofile", rc |-> 0, out |-> <<>>, err |-> "", rss_mb |-> 0]}

\* what the program of a submission can do on a test case: the program CodeHog
\* allocates 512 MB before it does anything else
Behaviours(code) ==
    IF code = CodeHog
    THEN {[o EXCEPT !.rss_mb = 512] : o \in {c \in ChildOutcomes : c.how # "nofile"}}
         \cup {c \in ChildOutcomes : c.how = "nofile"}
    ELSE ChildOutcomes

\* _run_with_limits(cmd, inp, cwd, time_limit): the result dict, or the
\* exception of Popen, which only catches TimeoutExpired
run_with_limits(command, o) ==
    IF o.how = "nofile" \/ command = "None"
    THEN [raises |-> TRUE, verdict |-> "", output |-> <<>>, details |-> "", has_details |-> FALSE]
    ELSE IF o.how = "timeout"
    THEN [raises |-> FALSE, verdict |-> "Time Limit Exceeded", output |-> <<>>,
          details |-> "", has_details |-> FALSE]
    ELSE IF o.rc # 0
    THEN [raises |-> FALSE, verdict |-> "Runtime Error", output |-> <<>>,
          details |-> o.err, has_details |-> TRUE]
    ELSE [raises |-> FALSE, verdict |-> "Passed", output |-> o.out,
          details |-> "", has_details |-> FALSE]

-----------------------------------------------------------------------------
(* The client environment agent: the values of agent.py and executor.py *)

\* runs requested from the agent, and the job ids they get, in request order
MaxJobs == 3

\* readings of time.time() by get_job_status and cancel_job
MaxTime == 3

\* MAX_JOB_HISTORY of agent.py is 100; the model keeps its role with a store
\* that is cleaned when it holds more than 2 jobs
MaxJobHistory == 2

Runs == 1..MaxJobs

NoChild == [state |-> "none", kind |-> "", rc |-> 0, out |-> <<>>, hog |-> FALSE,
            fed |-> FALSE, late |-> FALSE]

\* result = {"status": "unknown", "output": "", "memory_usage": "0 MB"}
NoResult == [status |-> "unknown", output |-> <<>>, memory_usage |-> 0]

\* a text that executor.py composes or takes from standard error for
\* result["output"]: it is not the standard output of the child
Diagnostic == <<"diagnostic">>

NoWorker == [pc |-> "none", mode |-> "", problem_id |-> "", language |-> "", code |-> "",
             result |-> NoResult, lockdown_enabled |-> FALSE, max_memory |-> 0,
             fault |-> "none", exec_folder |-> NoDir]

\* the job record run_async_tests creates; completed_at = 0 stands for no such
\* key.  finished_at is no key of the record: it keeps the reading of the clock
\* at which progress first became 100, for the properties that speak of it.
QueuedJob == [status |-> "queued", progress |-> 0, completed_at |-> 0, memory_usage |-> 0,
              finished_at |-> 0]

\* finished_at of a record that gets the progress value given
Finished(r, progress) ==
    IF progress >= 100 /\ r.finished_at = 0 THEN now ELSE r.finished_at

\* _lockdown_state = {"active": False, "rules_applied": False}
Inactive == [active |-> FALSE, rules_applied |-> FALSE]

NoCall == [op |-> "none", ret |-> FALSE, raised |-> FALSE, cmds |-> {}]

\* a host on which the agent runs as an ordinary user
UserHost(ps, ld) ==
    [psutil |-> ps, lockdown |-> ld, system |-> "Linux", tool |-> "iptables", admin |-> FALSE]

AgentStart ==
    /\ dirs = {}
    /\ lockdown_state = Inactive
    /\ firewall = {}
    /\ lcall = NoCall
    /\ LOCKDOWN_ACTIVE = FALSE
    /\ toggled = <<>>
    /\ jobs = <<>>
    /\ wk = [j \in Runs |-> NoWorker]
    /\ child = [j \in Runs |-> NoChild]
    /\ now = 1
    /\ njobs = 0
    /\ cleanups = 0

\* the programs submitted to the agent, by what their process does: "quick"
\* exits within the time limit, "slow" exits by itself after the time limit,
\* "forever" never exits, "stdin" exits once its standard input has been
\* written and closed; hog: its resident memory grows from 100 MB to 300 MB
ChildBehaviours ==
    [sum   |-> [kind |-> "quick", rc |-> 0, out |-> <<"8", "\r", "\n">>, hog |-> FALSE],
     off   |-> [kind |-> "quick", rc |-> 0, out |-> <<"9">>, hog |-> FALSE],
     crash |-> [kind |-> "quick", rc |-> 1, out |-> <<>>, hog |-> FALSE],
     hog   |-> [kind |-> "quick", rc |-> 0, out |-> <<"8">>, hog |-> TRUE],
     slow  |-> [kind |-> "slow", rc |-> 0, out |-> <<"8">>, hog |-> FALSE],
     spin  |-> [kind |-> "forever", rc |-> 0, out |-> <<>>, hog |-> FALSE],
     cat   |-> [kind |-> "stdin", rc |-> 0, out |-> <<"8">>, hog |-> FALSE]]

\* p.memory_info().rss of a running child, in megabytes
Readings(c) == IF c.hog THEN {100, 300} ELSE {100}

\* normalize_output(output): output.strip().replace('\r\n', '\n')
normalize_output(output) == ReplaceCRLF(RStrip(LStrip(output)))

\* load_problem_data(problem_id): None unless the problem has a sample case
load_problem_data(pid) ==
    IF pid \in DOMAIN Problems /\ Problems[pid].sample_test_cases # <<>>
    THEN [found |-> TRUE, data |-> Problems[pid]]
    ELSE [found |-> FALSE, data |-> Problems["P0"]]

-----------------------------------------------------------------------------
(* judge_and_verify, step by step, for the request slot p *)

Init ==
    /\ files = [board |-> Absent, tmp |-> Absent]
    /\ pc = [p \in Procs |-> "idle"]
    /\ sub = [p \in Procs |-> NoSub]
    /\ cmd = [p \in Procs |-> ""]
    /\ trace = [p \in Procs |-> <<>>]
    /\ upd = [p \in Procs |-> NoUpd]
    /\ newdoc = [p \in Procs |-> EmptyBoard]
    /\ fd = [p \in Procs |-> "closed"]
    /\ ret = [p \in Procs |-> NoRet]
    /\ calls = [p \in Procs |-> 0]
    /\ compiled = [p \in Procs |-> FALSE]
    /\ log = <<>>
    /\ tmpdir = [p \in Procs |-> NoDir]
    /\ norm = NoNorm
    /\ AgentStart
    /\ host = UserHost(TRUE, TRUE)

\* judge_and_verify ends with a result object
Return(p, verdict, details) ==
    /\ ret' = [ret EXCEPT ![p] = Result(verdict, details)]
    /\ pc' = [pc EXCEPT ![p] = "idle"]

\* an exception leaves judge_and_verify
Raise(p, exc, where) ==
    /\ ret' = [ret EXCEPT ![p] = Raised(exc, where)]
    /\ pc' = [pc EXCEPT ![p] = "idle"]

\* run_test_cases returned: judge_and_verify goes on to update_scoreboard (line 301)
Judged(p, verdict, details, plag) ==
    /\ upd' = [upd EXCEPT ![p] = [verdict |-> verdict, details |-> details, plag |-> plag]]
    /\ pc' = [pc EXCEPT ![p] = "us_load"]
    /\ UNCHANGED ret

\* a call of judge_and_verify(s) starts
Submit(p, s) ==
    /\ pc[p] = "idle"
    /\ sub' = [sub EXCEPT ![p] = s]
    /\ pc' = [pc EXCEPT ![p] = "jv_problem"]
    /\ ret' = [ret EXCEPT ![p] = NoRet]
    /\ trace' = [trace EXCEPT ![p] = <<>>]
    /\ cmd' = [cmd EXCEPT ![p] = ""]
    /\ upd' = [upd EXCEPT ![p] = NoUpd]
    /\ newdoc' = [newdoc EXCEPT ![p] = EmptyBoard]
    /\ calls' = [calls EXCEPT ![p] = @ + 1]
    /\ compiled' = [compiled EXCEPT ![p] = FALSE]
    /\ UNCHANGED <<fsVars, log, agentVars, tmpdir, dirs>>

\* lines 286-289: problems.get(sub["problem_id"])
LookupProblem(p) ==
    /\ pc[p] = "jv_problem"
    /\ IF sub[p].problem_id \in DOMAIN Problems
       THEN pc' = [pc EXCEPT ![p] = "jv_plagiarism"] /\ UNCHANGED ret
       ELSE Return(p, "System Error", <<"Problem not found">>)
    /\ UNCHANGED <<fsVars, runVars, sub, upd, newdoc, calls, log, agentVars, tmpdir, dirs>>

\* the screen placed behind the run: the submission is executed first and
\* screened when its verdict is known
ScreenAfterRun(p) ==
    /\ \/ /\ pc[p] = "jv_plagiarism"
          /\ pc' = [pc EXCEPT ![p] = "rt_mkdir"]
          /\ UNCHANGED <<upd, ret>>
       \/ /\ pc[p] = "us_load" /\ ~upd[p].plag
          /\ LET r == check_plagiarism(sub[p], load_json(files["board"]))
             IN  r.plag /\ Judged(p, "Plagiarism Detected", r.msg, TRUE)
    /\ UNCHANGED <<fsVars, runVars, sub, newdoc, calls, log, agentVars, tmpdir, dirs>>

\* lines 291-295: load the board, check_plagiarism
ScreenPlagiarism(p) ==
    /\ pc[p] = "jv_plagiarism"
    /\ LET r == check_plagiarism(sub[p], load_json(files["board"]))
       IN  IF r.plag
           THEN Judged(p, "Plagiarism Detected", r.msg, TRUE)
           ELSE pc' = [pc EXCEPT ![p] = "rt_mkdir"] /\ UNCHANGED <<upd, ret>>
    /\ UNCHANGED <<fsVars, runVars, sub, newdoc, calls, log, agentVars, tmpdir, dirs>>

\* the positions of a slot inside the try of run_test_cases
InRun == {"rt_setup", "rt_loop"}

\* run_test_cases, lines 234-235: finally shutil.rmtree(tmp, ignore_errors=True),
\* when the step taken leaves the try
RunFinally(p) ==
    IF pc'[p] \in InRun
    THEN UNCHANGED <<tmpdir, dirs>>
    ELSE /\ dirs' = rmtree(tmpdir[p])
         /\ tmpdir' = [tmpdir EXCEPT ![p] = NoDir]

\* run_test_cases, lines 212-213: the working directory is named after the
\* participant and the clock, and created unless it exists
RunMkdir(p) ==
    /\ pc[p] = "rt_mkdir"
    /\ \E t \in Millis :
          /\ tmpdir' = [tmpdir EXCEPT ![p] = JudgeDir(sub[p].participant_name, t)]
          /\ dirs' = mkdir(JudgeDir(sub[p].participant_name, t))
    /\ pc' = [pc EXCEPT ![p] = "rt_setup"]
    /\ UNCHANGED <<fsVars, runVars, sub, upd, newdoc, ret, calls, log, agentVars>>

\* run_test_cases, lines 214-225: the command for the language; write_text
\* raises FileNotFoundError when the directory is gone
RunSetup(p) ==
    /\ pc[p] = "rt_setup"
    /\ IF sub[p].language = "python"
       THEN IF tmpdir[p] \in dirs
            THEN /\ cmd' = [cmd EXCEPT ![p] = "python"]
                 /\ pc' = [pc EXCEPT ![p] = "rt_loop"]
                 /\ UNCHANGED <<upd, ret, compiled>>
            ELSE Raise(p, "FileNotFoundError", "run_test_cases")
                 /\ UNCHANGED <<cmd, upd, compiled>>
       ELSE IF sub[p].language = "cpp"
       THEN IF tmpdir[p] \notin dirs
            THEN Raise(p, "FileNotFoundError", "_compile_cpp")
                 /\ UNCHANGED <<cmd, upd, compiled>>
            ELSE
            \E o \in CompileOutcomes :
                LET c == compile_cpp(o)
                IN  /\ compiled' = [compiled EXCEPT ![p] = TRUE]
                    /\ IF c.raises
                       THEN Raise(p, "FileNotFoundError", "_compile_cpp") /\ UNCHANGED <<cmd, upd>>
                       ELSE IF c.err # ""
                       THEN Judged(p, "Compilation Error", <<c.err>>, FALSE) /\ UNCHANGED cmd
                       ELSE /\ cmd' = [cmd EXCEPT ![p] = c.exe]
                            /\ pc' = [pc EXCEPT ![p] = "rt_loop"]
                            /\ UNCHANGED <<upd, ret>>
       ELSE Judged(p, "System Error", <<"Unsupported language">>, FALSE)
            /\ UNCHANGED <<cmd, compiled>>
    /\ RunFinally(p)
    /\ UNCHANGED <<fsVars, trace, sub, newdoc, calls, log, agentVars>>

\* run_test_cases, lines 227-232: one turn of the loop over the test cases
RunTest(p) ==
    /\ pc[p] = "rt_loop"
    /\ Len(trace[p]) < Len(Tests(sub[p].problem_id))
    /\ \E o \in Behaviours(sub[p].code) :
        LET i == Len(trace[p])
            t == Tests(sub[p].problem_id)[i + 1]
            res == run_with_limits(cmd[p], o)
            ran(what) == trace' = [trace EXCEPT ![p] =
                             Append(@, [test |-> i + 1, input |-> t.input, result |-> what,
                                        rss_mb |-> o.rss_mb])]
        IN  IF res.raises \/ tmpdir[p] \notin dirs
            THEN ran("raised") /\ Raise(p, "FileNotFoundError", "_run_with_limits") /\ UNCHANGED upd
            ELSE IF res.verdict # "Passed"
            THEN /\ ran(res.verdict)
                 /\ Judged(p, res.verdict,
                           <<"Failed on test ", ToString(TestNumber(i)), ": ",
                             IF res.has_details THEN res.details ELSE "">>, FALSE)
            ELSE IF "output" \notin DOMAIN t
            THEN ran("raised") /\ Raise(p, "KeyError", "run_test_cases") /\ UNCHANGED upd
            ELSE IF normalize(res.output) # normalize(t.output)
            THEN /\ ran("Wrong Answer")
                 /\ Judged(p, "Wrong Answer", <<"Failed on test ", ToString(TestNumber(i))>>, FALSE)
            ELSE ran("Passed") /\ UNCHANGED <<pc, upd, ret>>
    /\ RunFinally(p)
    /\ UNCHANGED <<fsVars, cmd, compiled, sub, newdoc, calls, log, agentVars>>

\* run_test_cases, line 233: the loop ran out of test cases
RunAccepted(p) ==
    /\ pc[p] = "rt_loop"
    /\ Len(trace[p]) = Len(Tests(sub[p].problem_id))
    /\ Judged(p, "Accepted", <<>>, FALSE)
    /\ RunFinally(p)
    /\ UNCHANGED <<fsVars, runVars, sub, newdoc, calls, log, agentVars>>

\* update_scoreboard, lines 259-280: load the board and update it in memory
UpdLoad(p) ==
    /\ pc[p] = "us_load"
    /\ newdoc' = [newdoc EXCEPT ![p] =
           UpdateBoard(load_json(files["board"]), sub[p], upd[p].verdict, upd[p].details,
                       upd[p].plag)]
    /\ pc' = [pc EXCEPT ![p] = "sv_open"]
    /\ UNCHANGED <<fsVars, runVars, sub, upd, ret, calls, log, agentVars, tmpdir, dirs>>

\* save_json_atomic, lines 179-180: open(tmp, "w") creates or truncates the file
SaveOpen(p) ==
    /\ pc[p] = "sv_open"
    /\ files' = [files EXCEPT ![TmpPath("board")] = EmptyFile]
    /\ fd' = [fd EXCEPT ![p] = TmpPath("board")]
    /\ pc' = [pc EXCEPT ![p] = "sv_head"]
    /\ UNCHANGED <<runVars, sub, upd, newdoc, ret, calls, log, agentVars, tmpdir, dirs>>

\* the file the open file object of p writes to, under the name it has now
WriteTo(p, part, doc) ==
    IF fd[p] \in DOMAIN files /\ files[fd[p]].st = "file"
    THEN files' = [files EXCEPT ![fd[p]] = [@ EXCEPT ![part] = Part(doc)]]
    ELSE UNCHANGED files

\* save_json_atomic, line 181: json.dump, the first part reaches the file
SaveWriteHead(p) ==
    /\ pc[p] = "sv_head"
    /\ WriteTo(p, "head", newdoc[p])
    /\ pc' = [pc EXCEPT ![p] = "sv_tail"]
    /\ UNCHANGED <<fd, runVars, sub, upd, newdoc, ret, calls, log, agentVars, tmpdir, dirs>>

\* save_json_atomic, line 181: the rest reaches the file, which is closed
SaveWriteTail(p) ==
    /\ pc[p] = "sv_tail"
    /\ WriteTo(p, "tail", newdoc[p])
    /\ fd' = [fd EXCEPT ![p] = "closed"]
    /\ pc' = [pc EXCEPT ![p] = "sv_replace"]
    /\ UNCHANGED <<runVars, sub, upd, newdoc, ret, calls, log, agentVars, tmpdir, dirs>>

\* save_json_atomic, line 182: os.replace(tmp, path)
os_replace(p) ==
    /\ pc[p] = "sv_replace"
    /\ LET tmp == TmpPath("board")
       IN  IF files[tmp].st # "file"
           THEN Raise(p, "FileNotFoundError", "save_json_atomic") /\ UNCHANGED fsVars
           ELSE /\ IF tmp = "board" THEN UNCHANGED fsVars
                   ELSE /\ files' = [board |-> files[tmp], tmp |-> Absent]
                        /\ fd' = [q \in Procs |->
                                     IF fd[q] = tmp THEN "board"
                                     ELSE IF fd[q] = "board" THEN "unlinked" ELSE fd[q]]
                /\ pc' = [pc EXCEPT ![p] = "jv_return"]
                /\ UNCHANGED ret
    /\ UNCHANGED <<runVars, sub, upd, newdoc, calls, agentVars, tmpdir, dirs>>

SaveReplace(p) == os_replace(p) /\ UNCHANGED log

\* the same step, with the stored submission added to the history
SaveReplaceLogged(p) ==
    /\ os_replace(p)
    /\ log' = IF pc'[p] = "jv_return"
              THEN Append(log, [participant_name |-> sub[p].participant_name,
                                problem_id |-> sub[p].problem_id,
                                code |-> sub[p].code,
                                verdict |-> upd[p].verdict])
              ELSE log

\* lines 295 and 302: the verdict goes back to the caller
ReturnVerdict(p) ==
    /\ pc[p] = "jv_return"
    /\ Return(p, upd[p].verdict, upd[p].details)
    /\ UNCHANGED <<fsVars, runVars, sub, upd, newdoc, calls, log, agentVars, tmpdir, dirs>>

\* the process is killed while the request of p is in progress
Kill(p) ==
    /\ pc[p] # "idle"
    /\ pc' = [pc EXCEPT ![p] = "idle"]
    /\ ret' = [ret EXCEPT ![p] = [kind |-> "killed"]]
    /\ fd' = [fd EXCEPT ![p] = "closed"]
    /\ tmpdir' = [tmpdir EXCEPT ![p] = NoDir]
    /\ UNCHANGED <<files, runVars, sub, upd, newdoc, calls, log, agentVars, dirs>>

Step(p) ==
    \/ LookupProblem(p)
    \/ ScreenPlagiarism(p)
    \/ RunMkdir(p)
    \/ RunSetup(p)
    \/ RunTest(p)
    \/ RunAccepted(p)
    \/ UpdLoad(p)
    \/ SaveOpen(p)
    \/ SaveWriteHead(p)
    \/ SaveWriteTail(p)
    \/ SaveReplace(p)
    \/ ReturnVerdict(p)

\* the steps of slot p, the history of stored submissions being kept
StepLogged(p) ==
    \/ LookupProblem(p)
    \/ ScreenPlagiarism(p)
    \/ RunMkdir(p)
    \/ RunSetup(p)
    \/ RunTest(p)
    \/ RunAccepted(p)
    \/ UpdLoad(p)
    \/ SaveOpen(p)
    \/ SaveWriteHead(p)
    \/ SaveWriteTail(p)
    \/ SaveReplaceLogged(p)
    \/ ReturnVerdict(p)

-----------------------------------------------------------------------------
(* lockdown.py: the firewall lockdown *)

\* the two rules lockdown.py installs: the one that blocks outbound traffic
\* and the one that allows localhost
Rules == {"block", "allow"}

\* a demo mode that claims the rules
DemoClaimsRules == [active |-> TRUE, rules_applied |-> TRUE]

\* _lockdown_state after a verified installation, and in demo mode
Applied == [active |-> TRUE, rules_applied |-> TRUE]
Demo == [active |-> TRUE, rules_applied |-> FALSE]

\* how the firewall commands of one call turn out.  add: both rules are
\* added, the first or the second command exits with a non-zero status
\* (CalledProcessError), or the first raises another exception (timeout, no
\* such command); verify: the command that lists the rules works (otherwise
\* verify_rules_* returns False); del: the rules the delete commands remove;
\* delraise: the first delete command raises
LockEnvs == [add : {"ok", "failed1", "failed2", "raised"}, verify : BOOLEAN,
             del : SUBSET Rules, delraise : BOOLEAN]

\* verify_rules_windows() / verify_rules_unix(tool): the blocking rule is listed
verify_rules(fw, e) == "block" \in fw /\ e.verify

\* the rule added by the first of the two commands: netsh and ufw block
\* first, iptables allows localhost first
FirstRule == IF host.system = "Linux" /\ host.tool = "iptables" THEN "allow" ELSE "block"

\* the outcome of a lockdown function: the state and the firewall after it,
\* its return value (or raised), the kinds of firewall commands it ran
Outcome(st, fw, r, x, c) == [state |-> st, firewall |-> fw, ret |-> r, raised |-> x, cmds |-> c]

\* disable_lockdown_windows(): lines 270-326
disable_lockdown_windows(st, fw, e) ==
    IF ~host.admin THEN Outcome(Inactive, fw, TRUE, FALSE, {})
    ELSE IF e.delraise
    THEN Outcome([st EXCEPT !.active = FALSE], fw, FALSE, FALSE, {"delete"})
    ELSE LET fw1 == fw \ e.del
         IN  IF ~verify_rules(fw1, e)
             THEN Outcome(Inactive, fw1, TRUE, FALSE, {"delete", "verify"})
             ELSE Outcome([st EXCEPT !.active = FALSE], fw1, FALSE, FALSE, {"delete", "verify"})

\* disable_lockdown_unix(): lines 438-511
disable_lockdown_unix(st, fw, e) ==
    IF ~host.admin THEN Outcome(Inactive, fw, TRUE, FALSE, {})
    ELSE IF host.tool = "none" THEN Outcome(Inactive, fw, TRUE, FALSE, {})
    ELSE IF e.delraise
    THEN Outcome([st EXCEPT !.active = FALSE], fw, FALSE, FALSE, {"delete"})
    ELSE LET fw1 == fw \ e.del
             success == ~verify_rules(fw1, e)
         IN  Outcome([active |-> FALSE,
                      rules_applied |-> IF success THEN FALSE ELSE st.rules_applied],
                     fw1, success, FALSE, {"delete", "verify"})

\* the check for existing rules at the start of enable_lockdown_*, and the
\* cleanup when there are some; d is the outcome of the disable function
Precheck(st, fw, e, d) ==
    IF verify_rules(fw, e) THEN [d EXCEPT !.cmds = @ \cup {"verify"}]
    ELSE Outcome(st, fw, FALSE, FALSE, {"verify"})

\* enable_lockdown_windows(): lines 194-267
enable_lockdown_windows(st, fw, e) ==
    IF ~host.admin THEN Outcome(Demo, fw, FALSE, FALSE, {})
    ELSE LET pre == Precheck(st, fw, e, disable_lockdown_windows(st, fw, e))
             c == pre.cmds \cup {"add"}
         IN  CASE e.add \in {"failed1", "raised"} -> Outcome(Inactive, pre.firewall, FALSE, FALSE, c)
               [] e.add = "failed2" ->
                      Outcome(Inactive, pre.firewall \cup {FirstRule}, FALSE, FALSE, c)
               [] e.add = "ok" ->
                      IF verify_rules(pre.firewall \cup Rules, e)
                      THEN Outcome(Applied, pre.firewall \cup Rules, TRUE, FALSE, c)
                      ELSE Outcome(Demo, pre.firewall \cup Rules, FALSE, FALSE, c)

\* enable_lockdown_unix(): lines 333-435
enable_lockdown_unix(st, fw, e) ==
    IF ~host.admin THEN Outcome(Demo, fw, FALSE, FALSE, {})
    ELSE IF host.tool = "none" THEN Outcome(Demo, fw, FALSE, FALSE, {})
    ELSE LET pre == Precheck(st, fw, e, disable_lockdown_unix(st, fw, e))
             c == pre.cmds \cup {"add"}
         IN  CASE e.add = "failed1" -> Outcome(Inactive, pre.firewall, FALSE, FALSE, c)
               [] e.add = "failed2" ->
                      Outcome(Inactive, pre.firewall \cup {FirstRule}, FALSE, FALSE, c)
               [] e.add = "raised" -> Outcome(pre.state, pre.firewall, FALSE, TRUE, c)
               [] e.add = "ok" ->
                      IF verify_rules(pre.firewall \cup Rules, e)
                      THEN Outcome(Applied, pre.firewall \cup Rules, TRUE, FALSE, c)
                      ELSE Outcome(pre.state, pre.firewall \cup Rules, FALSE, FALSE, c)

\* enable() that does nothing
enable_nothing(e) == Outcome(lockdown_state, firewall, FALSE, FALSE, {})

\* enable() that installs the rules whatever the state is
enable_always(e) ==
    IF host.system = "Windows"
    THEN enable_lockdown_windows(lockdown_state, firewall, e)
    ELSE enable_lockdown_unix(lockdown_state, firewall, e)

\* enable(): lines 518-538, under _lockdown_lock
enable(e) ==
    IF lockdown_state.active
    THEN Outcome(lockdown_state, firewall, lockdown_state.rules_applied, FALSE, {})
    ELSE IF host.system = "Windows"
    THEN enable_lockdown_windows(lockdown_state, firewall, e)
    ELSE enable_lockdown_unix(lockdown_state, firewall, e)

\* release(): lines 541-560, under _lockdown_lock
release(e) ==
    IF ~lockdown_state.active
    THEN Outcome(lockdown_state, firewall, TRUE, FALSE, {})
    ELSE IF host.system = "Windows"
    THEN disable_lockdown_windows(lockdown_state, firewall, e)
    ELSE disable_lockdown_unix(lockdown_state, firewall, e)

\* a cleanup that trusts the tracked state, as release() does
emergency_cleanup_tracked(e) ==
    IF ~lockdown_state.active
    THEN Outcome(lockdown_state, firewall, FALSE, FALSE, {})
    ELSE IF host.system = "Windows"
    THEN disable_lockdown_windows(lockdown_state, firewall, e)
    ELSE disable_lockdown_unix(lockdown_state, firewall, e)

\* emergency_cleanup(): lines 627-643, under _lockdown_lock; it returns None
emergency_cleanup(e) ==
    LET d == IF host.system = "Windows"
             THEN disable_lockdown_windows(Inactive, firewall, e)
             ELSE disable_lockdown_unix(Inactive, firewall, e)
    IN  [d EXCEPT !.ret = FALSE]

\* a call of a lockdown function from outside the executor, with outcome o
LockCall(op, o) ==
    /\ lockdown_state' = o.state
    /\ firewall' = o.firewall
    /\ lcall' = [op |-> op, ret |-> o.ret, raised |-> o.raised, cmds |-> o.cmds]
    /\ toggled' = <<>>
    /\ UNCHANGED <<jobs, wk, child, now, njobs, cleanups, host, LOCKDOWN_ACTIVE, judgeVars,
                   dirs>>

Enable == \E o \in {enable(e) : e \in LockEnvs} : LockCall("enable", o)

Release == \E o \in {release(e) : e \in LockEnvs} : LockCall("release", o)

EmergencyCleanup ==
    \E o \in {emergency_cleanup(e) : e \in LockEnvs} : LockCall("emergency_cleanup", o)

\* POST /lockdown with the action given: toggle_lockdown, agent.py, lines
\* 461-526.  An exception of enable() or release() leaves the flag as it is.
ToggleLockdown(action) ==
    /\ host.lockdown
    /\ IF action = "enable"
       THEN /\ IF LOCKDOWN_ACTIVE
               THEN UNCHANGED <<lockdown_state, firewall, lcall, LOCKDOWN_ACTIVE>>
               ELSE \E o \in {enable(e) : e \in LockEnvs} :
                      /\ lockdown_state' = o.state
                      /\ firewall' = o.firewall
                      /\ lcall' = [op |-> "enable", ret |-> o.ret, raised |-> o.raised,
                                   cmds |-> o.cmds]
                      /\ LOCKDOWN_ACTIVE' = IF o.raised THEN LOCKDOWN_ACTIVE ELSE o.ret
            /\ toggled' = IF lockdown_state.active THEN <<>> ELSE <<"enable">>
       ELSE /\ action = "disable"
            /\ IF ~LOCKDOWN_ACTIVE
               THEN UNCHANGED <<lockdown_state, firewall, lcall, LOCKDOWN_ACTIVE>>
               ELSE \E o \in {release(e) : e \in LockEnvs} :
                      /\ lockdown_state' = o.state
                      /\ firewall' = o.firewall
                      /\ lcall' = [op |-> "release", ret |-> o.ret, raised |-> o.raised,
                                   cmds |-> o.cmds]
                      /\ LOCKDOWN_ACTIVE' = IF o.raised THEN LOCKDOWN_ACTIVE ELSE FALSE
            /\ toggled' = IF toggled = <<"enable">> THEN <<"enable", "disable">> ELSE <<>>
    /\ UNCHANGED <<jobs, wk, child, now, njobs, cleanups, host, judgeVars, dirs>>

\* POST /lockdown-emergency: emergency_lockdown_cleanup, agent.py, lines 545-564
EmergencyLockdownCleanup ==
    /\ host.lockdown
    /\ \E o \in {emergency_cleanup(e) : e \in LockEnvs} :
          /\ lockdown_state' = o.state
          /\ firewall' = o.firewall
          /\ lcall' = [op |-> "emergency_cleanup", ret |-> o.ret, raised |-> o.raised,
                       cmds |-> o.cmds]
          /\ LOCKDOWN_ACTIVE' = IF o.raised THEN LOCKDOWN_ACTIVE ELSE FALSE
    /\ toggled' = <<>>
    /\ UNCHANGED <<jobs, wk, child, now, njobs, cleanups, host, judgeVars, dirs>>

-----------------------------------------------------------------------------
(* agent.py and executor.py: a run j, from the request to the end of its thread *)

Async(j) == wk[j].mode = "async"

\* status_store[job_id] raises KeyError: the record of the job is gone
KeyError(j) == Async(j) /\ j \notin DOMAIN jobs

\* update_status that writes into every record of the store
update_status_all(j, status, progress) ==
    IF Async(j) /\ j \in DOMAIN jobs
    THEN [k \in DOMAIN jobs |-> [jobs[k] EXCEPT !.status = status, !.progress = progress,
                                                !.finished_at = Finished(jobs[k], progress)]]
    ELSE jobs

\* update_status(status, output, progress): the job store after it; a
\* synchronous run has no job record and no status update
update_status(j, status, progress) ==
    IF Async(j) /\ j \in DOMAIN jobs
    THEN [jobs EXCEPT ![j] = [@ EXCEPT !.status = status, !.progress = progress,
                                       !.finished_at = Finished(jobs[j], progress)]]
    ELSE jobs

\* update_status(status, output, progress, memory_usage=...)
update_status_mem(j, status, progress, mem) ==
    IF Async(j) /\ j \in DOMAIN jobs
    THEN [jobs EXCEPT ![j] = [@ EXCEPT !.status = status, !.progress = progress,
                                       !.memory_usage = mem,
                                       !.finished_at = Finished(jobs[j], progress)]]
    ELSE jobs

\* the thread of run j goes to position q
Goto(j, q) == wk' = [wk EXCEPT ![j].pc = q]

\* the thread of run j goes to position q with the result status s
GotoResult(j, q, s) ==
    wk' = [wk EXCEPT ![j].pc = q, ![j].result.status = s, ![j].result.output = Diagnostic]

\* a status update on the way from one position to the next: the thread goes
\* to q, or to e when the update raises KeyError
Report(j, status, progress, q, e) ==
    /\ jobs' = update_status(j, status, progress)
    /\ Goto(j, IF KeyError(j) THEN e ELSE q)

\* mem_limit = problem_data.get("memory_limit", DEFAULT_MEMORY_LIMIT_MB)
MemLimit(j) == load_problem_data(wk[j].problem_id).data.memory_limit

\* POST /run-async: run_async_tests creates the job record, starts the worker
\* thread and a cleanup_old_jobs thread
RunAsync(pid, lang, code) ==
    /\ njobs < MaxJobs
    /\ LET j == njobs + 1
       IN  /\ jobs' = [k \in DOMAIN jobs \cup {j} |-> IF k = j THEN QueuedJob ELSE jobs[k]]
           /\ wk' = [wk EXCEPT ![j] = [NoWorker EXCEPT !.pc = "w_init", !.mode = "async",
                                                       !.problem_id = pid, !.language = lang,
                                                       !.code = code]]
           /\ njobs' = j
    /\ cleanups' = cleanups + 1
    /\ UNCHANGED <<child, now, host, lockVars, judgeVars, dirs>>

\* POST /run-local: run_code_locally runs on the request thread; lines 177-178
\* name the working directory after the clock and create it unless it exists
RunLocal(pid, lang, code) ==
    /\ njobs < MaxJobs
    /\ \E t \in Millis :
        LET j == njobs + 1
        IN  /\ wk' = [wk EXCEPT ![j] = [NoWorker EXCEPT !.pc = "w_ready", !.mode = "sync",
                                                        !.problem_id = pid, !.language = lang,
                                                        !.code = code,
                                                        !.exec_folder = SyncDir(t)]]
            /\ dirs' = mkdir(SyncDir(t))
            /\ njobs' = j
    /\ UNCHANGED <<jobs, cleanups, child, now, host, lockVars, judgeVars>>

\* run_code_and_update_status, lines 80-84: the first update, outside the try,
\* and the working directory of the job
WInit(j) ==
    /\ wk[j].pc = "w_init"
    /\ jobs' = update_status(j, "Initializing", 5)
    /\ IF KeyError(j)
       THEN Goto(j, "dead") /\ UNCHANGED dirs
       ELSE /\ wk' = [wk EXCEPT ![j].pc = "w_load", ![j].exec_folder = AsyncDir(j)]
            /\ dirs' = mkdir(AsyncDir(j))
    /\ UNCHANGED <<child, now, njobs, cleanups, host, lockVars, judgeVars>>

\* line 88
WLoad(j) ==
    /\ wk[j].pc = "w_load"
    /\ Report(j, "Loading Problem", 10, "w_ready", "w_except")
    /\ UNCHANGED <<child, now, njobs, cleanups, host, lockVars, judgeVars, dirs>>

\* lines 89-111 (run_code_locally: 182-192): load_problem_data, the sample case
WReady(j) ==
    /\ wk[j].pc = "w_ready"
    /\ LET r == load_problem_data(wk[j].problem_id)
       IN  IF ~r.found
           THEN /\ jobs' = update_status_mem(j, "error", 100, 0)
                /\ GotoResult(j, IF KeyError(j) THEN "w_except" ELSE "w_cleanup", "error")
           ELSE IF "output" \notin DOMAIN r.data.sample_test_cases[1]
           THEN Goto(j, "w_except") /\ UNCHANGED jobs
           ELSE Report(j, "Ready", 20, "w_lang", "w_except")
    /\ UNCHANGED <<child, now, njobs, cleanups, host, lockVars, judgeVars, dirs>>

\* source_file.write_text(source_code), lines 411-412 and 453-454 (464-465,
\* 484-485): the thread goes on to q, or to the handler of the caller with the
\* FileNotFoundError of a working directory that is gone
Written(j, q) == IF wk[j].exec_folder \in dirs THEN q ELSE "w_except"

\* lines 114-132 (run_code_locally: 195-202): the branch on the language, and
\* the first update of execute_cpp_async or execute_python_async
WLang(j) ==
    /\ wk[j].pc = "w_lang"
    /\ IF wk[j].language = "cpp"
       THEN Report(j, "Compiling", 30, Written(j, "cpp_40"), "w_except")
       ELSE IF wk[j].language = "python"
       THEN Report(j, "Preparing", 30, Written(j, "py_60"), "w_except")
       ELSE /\ jobs' = update_status_mem(j, "error", 100, 0)
            /\ GotoResult(j, IF KeyError(j) THEN "w_except" ELSE "w_cleanup", "error")
    /\ UNCHANGED <<child, now, njobs, cleanups, host, lockVars, judgeVars, dirs>>

\* execute_cpp_async, line 417
Cpp40(j) ==
    /\ wk[j].pc = "cpp_40"
    /\ Report(j, "Compiling", 40, "cpp_compile", "w_except")
    /\ UNCHANGED <<child, now, njobs, cleanups, host, lockVars, judgeVars, dirs>>

\* subprocess.run of g++: it exits with 0 or not, it is not found, it does not
\* end within 10 seconds, or the launch fails with another OSError
AgentCompileOutcomes == {"ok", "failed", "nofile", "timeout", "oserror"}

\* execute_cpp_async, lines 419-441 (execute_cpp: 470-477)
CppCompile(j) ==
    /\ wk[j].pc = "cpp_compile"
    /\ \E o \in AgentCompileOutcomes :
          /\ o = "ok" => wk[j].exec_folder \in dirs
          /\ wk' = [wk EXCEPT ![j] =
                    IF o = "ok" THEN [@ EXCEPT !.pc = "cpp_60"]
                    ELSE IF o = "oserror" THEN [@ EXCEPT !.pc = "w_except", !.fault = "host"]
                    ELSE [@ EXCEPT !.pc = "w_final", !.result.status = "compilation_error",
                                   !.result.output = Diagnostic,
                                   !.fault = IF o = "nofile" THEN "toolchain" ELSE @]]
    /\ UNCHANGED <<jobs, child, now, njobs, cleanups, host, lockVars, judgeVars, dirs>>

\* execute_cpp_async, line 428
Cpp60(j) ==
    /\ wk[j].pc = "cpp_60"
    /\ Report(j, "Compiled", 60, "sb_70", "w_except")
    /\ UNCHANGED <<child, now, njobs, cleanups, host, lockVars, judgeVars, dirs>>

\* execute_python_async, line 456
Py60(j) ==
    /\ wk[j].pc = "py_60"
    /\ Report(j, "Ready to Execute", 60, "sb_70", "w_except")
    /\ UNCHANGED <<child, now, njobs, cleanups, host, lockVars, judgeVars, dirs>>

\* _run_and_verify_async, line 323: the update before the try
Sb70(j) ==
    /\ wk[j].pc = "sb_70"
    /\ Report(j, "Running", 70, "sb_lock", "w_except")
    /\ UNCHANGED <<child, now, njobs, cleanups, host, lockVars, judgeVars, dirs>>

\* an exception inside the try of _run_and_verify(_async) other than
\* TimeoutExpired: the result is runtime_error (lines 301-306, 392-397)
SandboxExcept(w) ==
    [w EXCEPT !.pc = "sb_finally", !.result.status = "runtime_error",
              !.result.output = Diagnostic]

\* lines 327-330 (250-252): lockdown.enable() when the module is there; an
\* exception of enable() is one of the try block
SbLock(j) ==
    /\ wk[j].pc = "sb_lock"
    /\ IF host.lockdown
       THEN \E o \in {enable(e) : e \in LockEnvs} :
                  /\ lockdown_state' = o.state
                  /\ firewall' = o.firewall
                  /\ IF o.raised
                     THEN /\ wk' = [wk EXCEPT ![j] = SandboxExcept(@)]
                          /\ UNCHANGED jobs
                     ELSE /\ jobs' = update_status(j, "Running", 75)
                          /\ wk' = [wk EXCEPT ![j] =
                                       IF KeyError(j)
                                       THEN SandboxExcept([@ EXCEPT !.lockdown_enabled = TRUE])
                                       ELSE [@ EXCEPT !.pc = "sb_popen",
                                                      !.lockdown_enabled = TRUE]]
       ELSE Goto(j, "sb_popen") /\ UNCHANGED <<jobs, lockdown_state, firewall>>
    /\ toggled' = <<>>
    /\ UNCHANGED <<child, now, njobs, cleanups, host, lcall, LOCKDOWN_ACTIVE, judgeVars, dirs>>

\* lines 332-344 (254-265): subprocess.Popen starts the child, or raises
\* FileNotFoundError (no such command) or another OSError
SbPopen(j) ==
    /\ wk[j].pc = "sb_popen"
    /\ \/ LET b == ChildBehaviours[wk[j].code]
          IN
            /\ wk[j].exec_folder \in dirs
            /\ child' = [child EXCEPT ![j] =
                            [state |-> "running", kind |-> b.kind, rc |-> b.rc, out |-> b.out,
                             hog |-> b.hog, fed |-> FALSE, late |-> FALSE]]
            /\ Goto(j, IF host.psutil THEN "sb_poll" ELSE "sb_85")
       \/ \E f \in {"toolchain", "host"} :
            /\ wk' = [wk EXCEPT ![j] = SandboxExcept([@ EXCEPT !.fault = f])]
            /\ UNCHANGED child
    /\ UNCHANGED <<jobs, now, njobs, cleanups, host, lockVars, judgeVars, dirs>>

Max(a, b) == IF a >= b THEN a ELSE b

\* lines 346-370 (267-281): one turn of the polling loop.  The loop ends when
\* process.poll() finds the child gone; otherwise the turn reads the resident
\* memory r, keeps the maximum, updates the job when 0.5 s have passed since
\* the last update (tick; asynchronous run only), and kills the child when r
\* is over the limit.
SbPoll(j) ==
    /\ wk[j].pc = "sb_poll"
    /\ IF child[j].state # "running"
       THEN /\ wk' = [wk EXCEPT ![j].pc = "sb_85", ![j].result.memory_usage = wk[j].max_memory]
            /\ UNCHANGED <<jobs, child>>
       ELSE \E r \in Readings(child[j]), tick \in BOOLEAN :
              LET m == Max(wk[j].max_memory, r)
              IN  IF tick /\ KeyError(j)
                  THEN /\ wk' = [wk EXCEPT ![j] = SandboxExcept([@ EXCEPT !.max_memory = m])]
                       /\ UNCHANGED <<jobs, child>>
                  ELSE /\ jobs' = IF tick THEN update_status(j, "Running", 80) ELSE jobs
                       /\ IF r > MemLimit(j)
                          THEN /\ child' = [child EXCEPT ![j].state = "killed"]
                               /\ wk' = [wk EXCEPT ![j].pc = "sb_finally",
                                                   ![j].max_memory = m,
                                                   ![j].result = [status |-> "memory_limit_exceeded",
                                                                  output |-> Diagnostic,
                                                                  memory_usage |-> m]]
                          ELSE /\ wk' = [wk EXCEPT ![j].max_memory = m]
                               /\ UNCHANGED child
    /\ UNCHANGED <<now, njobs, cleanups, host, lockVars, judgeVars, dirs>>

\* line 372
Sb85(j) ==
    /\ wk[j].pc = "sb_85"
    /\ jobs' = update_status(j, "Running", 85)
    /\ wk' = [wk EXCEPT ![j] = IF KeyError(j) THEN SandboxExcept(@) ELSE [@ EXCEPT !.pc = "sb_comm"]]
    /\ UNCHANGED <<child, now, njobs, cleanups, host, lockVars, judgeVars, dirs>>

\* line 373 (284): communicate writes the input to the child's standard input
\* and closes it
SbCommunicate(j) ==
    /\ wk[j].pc = "sb_comm"
    /\ child' = [child EXCEPT ![j].fed = TRUE]
    /\ Goto(j, "sb_wait")
    /\ UNCHANGED <<jobs, now, njobs, cleanups, host, lockVars, judgeVars, dirs>>

\* line 373 (284): communicate returns when the child has exited, or raises
\* TimeoutExpired when time_limit has passed; the handler kills the child
\* (lines 388-391, 297-300)
SbWait(j) ==
    /\ wk[j].pc = "sb_wait"
    /\ \/ /\ child[j].state = "exited"
          /\ Goto(j, "sb_90")
          /\ UNCHANGED child
       \/ /\ child[j].state = "running" /\ child[j].late
          /\ child' = [child EXCEPT ![j].state = "killed"]
          /\ GotoResult(j, "sb_finally", "time_limit_exceeded")
    /\ UNCHANGED <<jobs, now, njobs, cleanups, host, lockVars, judgeVars, dirs>>

\* the status of a child that has exited (lines 377-386, 286-295)
Verified(j) ==
    IF child[j].rc # 0 THEN "runtime_error"
    ELSE IF normalize_output(child[j].out)
              = normalize_output(Problems[wk[j].problem_id].sample_test_cases[1].output)
    THEN "success"
    ELSE "wrong_answer"

\* result["output"] for a child that has exited (lines 379, 383, 386; 288,
\* 292, 295): standard error or a message on a non-zero exit code, the raw
\* standard output otherwise
RawOutput(j) == IF child[j].rc # 0 THEN Diagnostic ELSE child[j].out

\* lines 375-386 (286-295): the update before the verification, and the verification
Sb90(j) ==
    /\ wk[j].pc = "sb_90"
    /\ jobs' = update_status(j, "Verifying", 90)
    /\ wk' = [wk EXCEPT ![j] = IF KeyError(j) THEN SandboxExcept(@)
                               ELSE [@ EXCEPT !.pc = "sb_finally", !.result.status = Verified(j),
                                              !.result.output = RawOutput(j)]]
    /\ UNCHANGED <<child, now, njobs, cleanups, host, lockVars, judgeVars, dirs>>

\* a sandbox that returns without releasing the lockdown
SbFinallyKeepsLock(j) ==
    /\ wk[j].pc = "sb_finally"
    /\ Goto(j, "w_final")
    /\ toggled' = <<>>
    /\ UNCHANGED <<jobs, child, now, njobs, cleanups, host, lockdown_state, firewall, lcall,
                   LOCKDOWN_ACTIVE, judgeVars, dirs>>

\* lines 398-402 (307-311): lockdown.release() when enable() was called; return
SbFinally(j) ==
    /\ wk[j].pc = "sb_finally"
    /\ Goto(j, "w_final")
    /\ IF wk[j].lockdown_enabled
       THEN \E o \in {release(e) : e \in LockEnvs} :
              lockdown_state' = o.state /\ firewall' = o.firewall
       ELSE UNCHANGED <<lockdown_state, firewall>>
    /\ toggled' = <<>>
    /\ UNCHANGED <<jobs, child, now, njobs, cleanups, host, lcall, LOCKDOWN_ACTIVE, judgeVars,
                   dirs>>

\* lines 135-140 (run_code_locally: 204): the result of the execution becomes
\* the job's status, with progress 100
WFinal(j) ==
    /\ wk[j].pc = "w_final"
    /\ jobs' = update_status_mem(j, wk[j].result.status, 100, wk[j].result.memory_usage)
    /\ Goto(j, IF KeyError(j) THEN "w_except" ELSE "w_cleanup")
    /\ UNCHANGED <<child, now, njobs, cleanups, host, lockVars, judgeVars, dirs>>

\* lines 142-150 (run_code_locally: 206-208): except Exception; the update of
\* the handler may raise KeyError in its turn, which ends the thread
WExcept(j) ==
    /\ wk[j].pc = "w_except"
    /\ jobs' = update_status_mem(j, "error", 100, 0)
    /\ GotoResult(j, IF KeyError(j) THEN "w_die" ELSE "w_cleanup", "error")
    /\ UNCHANGED <<child, now, njobs, cleanups, host, lockVars, judgeVars, dirs>>

\* lines 152-153 (run_code_locally: 210-215): finally cleanup_temp_files
WCleanup(j) ==
    /\ wk[j].pc \in {"w_cleanup", "w_die"}
    /\ Goto(j, IF wk[j].pc = "w_die" THEN "dead" ELSE "done")
    /\ dirs' = rmtree(wk[j].exec_folder)
    /\ UNCHANGED <<jobs, child, now, njobs, cleanups, host, lockVars, judgeVars>>

\* the child of run j exits by itself
ChildExit(j) ==
    /\ child[j].state = "running"
    /\ \/ child[j].kind = "quick"
       \/ child[j].kind = "stdin" /\ child[j].fed
       \/ child[j].kind = "slow" /\ child[j].late /\ wk[j].pc # "sb_wait"
    /\ child' = [child EXCEPT ![j].state = "exited"]
    /\ UNCHANGED <<jobs, wk, now, njobs, cleanups, host, lockVars, judgeVars, dirs>>

\* time_limit seconds have passed and the child of run j is still running;
\* time passes while executor.py polls or waits
TimeLimitPasses(j) ==
    /\ child[j].state = "running" /\ ~child[j].late
    /\ wk[j].pc \in {"sb_poll", "sb_wait"}
    /\ \/ child[j].kind \in {"slow", "forever"}
       \/ child[j].kind = "stdin" /\ ~child[j].fed
    /\ child' = [child EXCEPT ![j].late = TRUE]
    /\ UNCHANGED <<jobs, wk, now, njobs, cleanups, host, lockVars, judgeVars, dirs>>

\* the steps of the thread of a run that does not compile
PythonStep(j) ==
    \/ WInit(j)
    \/ WLoad(j)
    \/ WReady(j)
    \/ WLang(j)
    \/ Py60(j)
    \/ Sb70(j)
    \/ SbLock(j)
    \/ SbPopen(j)
    \/ SbPoll(j)
    \/ Sb85(j)
    \/ SbCommunicate(j)
    \/ SbWait(j)
    \/ Sb90(j)
    \/ SbFinally(j)
    \/ WFinal(j)
    \/ WExcept(j)
    \/ WCleanup(j)

\* the steps of the thread of run j
AgentStep(j) ==
    \/ WInit(j)
    \/ WLoad(j)
    \/ WReady(j)
    \/ WLang(j)
    \/ Cpp40(j)
    \/ CppCompile(j)
    \/ Cpp60(j)
    \/ Py60(j)
    \/ Sb70(j)
    \/ SbLock(j)
    \/ SbPopen(j)
    \/ SbPoll(j)
    \/ Sb85(j)
    \/ SbCommunicate(j)
    \/ SbWait(j)
    \/ Sb90(j)
    \/ SbFinally(j)
    \/ WFinal(j)
    \/ WExcept(j)
    \/ WCleanup(j)

\* GET /job-status/<job_id>: get_job_status stamps a job found at progress 100
\* without completed_at
GetJobStatus(j) ==
    /\ j \in 1..njobs
    /\ now <= MaxTime
    /\ IF j \in DOMAIN jobs /\ jobs[j].progress >= 100 /\ jobs[j].completed_at = 0
       THEN /\ jobs' = [jobs EXCEPT ![j].completed_at = now]
            /\ now' = now + 1
       ELSE UNCHANGED <<jobs, now>>
    /\ UNCHANGED <<wk, child, njobs, cleanups, host, lockVars, judgeVars, dirs>>

\* cancel_job that marks every record it finds, completed or not
CancelJobAlways(j) ==
    /\ now <= MaxTime
    /\ IF j \in DOMAIN jobs
       THEN /\ jobs' = [jobs EXCEPT ![j] = [@ EXCEPT !.status = "cancelled", !.progress = 100,
                                                    !.completed_at = now,
                                                    !.finished_at = Finished(jobs[j], 100)]]
            /\ now' = now + 1
       ELSE UNCHANGED <<jobs, now>>
    /\ UNCHANGED <<wk, child, njobs, cleanups, host, lockVars, judgeVars, dirs>>

\* the response of cancel_job(job_id): the HTTP status and the message
cancel_job_response(j) ==
    IF j \notin DOMAIN jobs THEN <<404, "Job not found">>
    ELSE IF jobs[j].progress >= 100 THEN <<200, "Job already completed">>
    ELSE <<200, "Job cancelled">>

\* POST /job-cancel/<job_id>: cancel_job, for any job id
CancelJob(j) ==
    /\ now <= MaxTime
    /\ IF j \in DOMAIN jobs /\ jobs[j].progress < 100
       THEN /\ jobs' = [jobs EXCEPT ![j] = [@ EXCEPT !.status = "cancelled", !.progress = 100,
                                                    !.completed_at = now,
                                                    !.finished_at = Finished(jobs[j], 100)]]
            /\ now' = now + 1
       ELSE UNCHANGED <<jobs, now>>
    /\ UNCHANGED <<wk, child, njobs, cleanups, host, lockVars, judgeVars, dirs>>

\* the jobs cleanup_old_jobs counts as completed
CompletedJobs == {k \in DOMAIN jobs : jobs[k].progress >= 100}

\* the order of completed_jobs after the sort: by completed_at (0 when the key
\* is missing), jobs with equal keys in the order of their creation
SortsBefore(a, b) ==
    \/ jobs[a].completed_at < jobs[b].completed_at
    \/ jobs[a].completed_at = jobs[b].completed_at /\ a < b

\* cleanup_old_jobs, run by a thread that run_async_tests started
CleanupOldJobs ==
    /\ cleanups > 0
    /\ cleanups' = cleanups - 1
    /\ IF /\ Cardinality(DOMAIN jobs) > MaxJobHistory
          /\ Cardinality(CompletedJobs) > MaxJobHistory \div 2
       THEN LET to_remove == Cardinality(CompletedJobs) - (MaxJobHistory \div 2)
                gone == {k \in CompletedJobs :
                            Cardinality({x \in CompletedJobs : SortsBefore(x, k)}) < to_remove}
            IN  jobs' = [k \in DOMAIN jobs \ gone |-> jobs[k]]
       ELSE UNCHANGED jobs
    /\ UNCHANGED <<wk, child, now, njobs, host, lockVars, judgeVars, dirs>>

-----------------------------------------------------------------------------
(* Specifications *)

Submissions(users, pids, langs, codes) ==
    {[participant_name |-> u, problem_id |-> q, language |-> l, code |-> c] :
        u \in users, q \in pids, l \in langs, c \in codes}

\* one request at a time
SeqSubs ==
    Submissions(Users, {"P1"}, {"python"}, {CodeA, CodeB})
    \cup Submissions({"alice"}, {"P2", UnknownPid}, {"python"}, {CodeA})
    \cup Submissions({"bob"}, {"P1"}, {"cpp", "java"}, {CodeC})

Next ==
    \/ \E s \in SeqSubs : calls[1] < MaxCalls /\ Submit(1, s)
    \/ Step(1)

Spec == Init /\ [][Next]_vars

\* one request at a time, with a problem that has no test case
EmptySubs == Submissions(Users, {"P0", "P1"}, {"python"}, {CodeA, CodeC})

NextEmpty ==
    \/ \E s \in EmptySubs : calls[1] < MaxCalls /\ Submit(1, s)
    \/ Step(1)

SpecEmpty == Init /\ [][NextEmpty]_vars

\* two requests at once, one call each
ConcSubs == Submissions(Users, {"P1"}, {"python"}, {CodeA, CodeC})

NextConc ==
    \/ \E p \in Procs, s \in ConcSubs : calls[p] = 0 /\ Submit(p, s)
    \/ \E p \in Procs : Step(p)

SpecConc == Init /\ [][NextConc]_vars

\* one request at a time, and the process may be killed at any point
CrashSubs == Submissions(Users, {"P1"}, {"python"}, {CodeA})

NextCrash ==
    \/ \E s \in CrashSubs : calls[1] < MaxCalls /\ Submit(1, s)
    \/ Step(1)
    \/ Kill(1)

SpecCrash == Init /\ [][NextCrash]_vars

\* one request at a time, participants resubmitting; the history is kept
HistSubs == Submissions(Users, {"P1"}, {"python"}, {CodeA, CodeC})

NextHist ==
    \/ \E s \in HistSubs : calls[1] < MaxCalls /\ Submit(1, s)
    \/ StepLogged(1)

SpecHist == Init /\ [][NextHist]_vars

\* one request, judged against a scoreboard that earlier requests have left:
\* up to two stored submissions, with sources equal to CodeA, at ratio 0.9 with
\* it (CodeB), below 0.9 (CodeD), or empty
PlagStored ==
    {e \in Submissions(Users, {"P1", "P2"}, {"python"}, {CodeA, CodeB, CodeD, <<>>})
            \X {"Accepted", "Wrong Answer"} :
        e[1].code # <<>> \/ e[2] # "Accepted"}

Store(board, e) ==
    UpdateBoard(board, e[1], e[2],
                IF e[2] = "Accepted" THEN <<>> ELSE <<"Failed on test ", "1">>, FALSE)

PlagBoards ==
    {EmptyBoard} \cup {Store(EmptyBoard, e) : e \in PlagStored}
    \cup {Store(Store(EmptyBoard, e[1]), e[2]) : e \in PlagStored \X PlagStored}

PlagSubs == Submissions(Users, {"P1"}, {"python"}, {CodeA, <<>>})

InitPlag ==
    /\ \E b \in PlagBoards : files = [board |-> CompleteFile(b), tmp |-> Absent]
    /\ pc = [p \in Procs |-> "idle"]
    /\ sub = [p \in Procs |-> NoSub]
    /\ cmd = [p \in Procs |-> ""]
    /\ trace = [p \in Procs |-> <<>>]
    /\ upd = [p \in Procs |-> NoUpd]
    /\ newdoc = [p \in Procs |-> EmptyBoard]
    /\ fd = [p \in Procs |-> "closed"]
    /\ ret = [p \in Procs |-> NoRet]
    /\ calls = [p \in Procs |-> 0]
    /\ compiled = [p \in Procs |-> FALSE]
    /\ log = <<>>
    /\ tmpdir = [p \in Procs |-> NoDir]
    /\ norm = NoNorm
    /\ AgentStart
    /\ host = UserHost(TRUE, TRUE)

NextPlag ==
    \/ \E s \in PlagSubs : calls[1] = 0 /\ Submit(1, s)
    \/ Step(1)

SpecPlag == InitPlag /\ [][NextPlag]_vars

\* one request at a time, with a program that allocates beyond the memory limit
MemSubs == Submissions(Users, {"P1"}, {"python"}, {CodeA, CodeHog})

NextMem ==
    \/ \E s \in MemSubs : calls[1] < MaxCalls /\ Submit(1, s)
    \/ Step(1)

SpecMem == Init /\ [][NextMem]_vars

\* the central judge at rest
JudgeIdle ==
    /\ files = [board |-> Absent, tmp |-> Absent]
    /\ pc = [p \in Procs |-> "idle"]
    /\ sub = [p \in Procs |-> NoSub]
    /\ cmd = [p \in Procs |-> ""]
    /\ trace = [p \in Procs |-> <<>>]
    /\ upd = [p \in Procs |-> NoUpd]
    /\ newdoc = [p \in Procs |-> EmptyBoard]
    /\ fd = [p \in Procs |-> "closed"]
    /\ ret = [p \in Procs |-> NoRet]
    /\ calls = [p \in Procs |-> 0]
    /\ compiled = [p \in Procs |-> FALSE]
    /\ log = <<>>
    /\ tmpdir = [p \in Procs |-> NoDir]
    /\ norm = NoNorm

\* the agent on a host with or without psutil and lockdown.py
InitAgent ==
    /\ JudgeIdle
    /\ AgentStart
    /\ host \in {UserHost(ps, ld) : ps \in BOOLEAN, ld \in BOOLEAN}

AgentPids == {"P1", "P0", "P2", UnknownPid}
AgentLangs == {"python", "cpp", "java"}
AgentCodes == DOMAIN ChildBehaviours

\* one run on the agent, asynchronous or synchronous, polled and cancelled at
\* any moment
NextAgent ==
    \/ \E q \in AgentPids, l \in AgentLangs, c \in AgentCodes : njobs = 0 /\ RunAsync(q, l, c)
    \/ \E q \in AgentPids, l \in AgentLangs, c \in AgentCodes : njobs = 0 /\ RunLocal(q, l, c)
    \/ \E j \in Runs : AgentStep(j)
    \/ \E j \in Runs : ChildExit(j)
    \/ \E j \in Runs : TimeLimitPasses(j)
    \/ \E j \in Runs : GetJobStatus(j)
    \/ \E j \in Runs : CancelJob(j)
    \/ CleanupOldJobs

SpecAgent == InitAgent /\ [][NextAgent]_vars

\* the agent on a host with psutil and lockdown.py
InitJobs ==
    /\ JudgeIdle
    /\ AgentStart
    /\ host = UserHost(TRUE, TRUE)

\* the runs requested: a memory hog for P1, then runs for an unknown problem
JobInputs(n) ==
    IF n = 0 THEN {[problem_id |-> "P1", language |-> "python", code |-> "hog"]}
    ELSE {[problem_id |-> UnknownPid, language |-> "python", code |-> "sum"]}

\* up to MaxJobs asynchronous runs at once, polled, cancelled and cleaned up;
\* the programs of JobInputs exit within the time limit
NextJobs ==
    \/ \E i \in JobInputs(njobs) : RunAsync(i.problem_id, i.language, i.code)
    \/ \E j \in Runs : PythonStep(j)
    \/ \E j \in Runs : ChildExit(j)
    \/ \E j \in Runs : GetJobStatus(j)
    \/ \E j \in Runs : CancelJob(j)
    \/ CleanupOldJobs

SpecJobs == InitJobs /\ [][NextJobs]_vars

PairPids == {"P1", UnknownPid}
PairLangs == {"python", "cpp"}
PairCodes == {"hog", "slow"}

\* two asynchronous runs whose workers run side by side
NextPair ==
    \/ \E q \in PairPids, l \in PairLangs, c \in PairCodes : njobs < 2 /\ RunAsync(q, l, c)
    \/ \E j \in Runs : AgentStep(j)
    \/ \E j \in Runs : ChildExit(j)
    \/ \E j \in Runs : TimeLimitPasses(j)

SpecPair == InitJobs /\ [][NextPair]_vars

\* the hosts of lockdown.py: Windows with netsh, Linux with ufw, with
\* iptables or with neither, with and without privilege, with and without
\* lockdown rules left in the firewall by an earlier process
LockHosts ==
    {[psutil |-> TRUE, lockdown |-> TRUE, system |-> s[1], tool |-> s[2], admin |-> a] :
        s \in {<<"Windows", "none">>, <<"Linux", "ufw">>, <<"Linux", "iptables">>,
               <<"Linux", "none">>},
        a \in BOOLEAN}

InitLock ==
    /\ JudgeIdle
    /\ jobs = <<>>
    /\ wk = [j \in Runs |-> NoWorker]
    /\ child = [j \in Runs |-> NoChild]
    /\ now = 1
    /\ njobs = 0
    /\ cleanups = 0
    /\ lockdown_state = Inactive
    /\ lcall = NoCall
    /\ LOCKDOWN_ACTIVE = FALSE
    /\ toggled = <<>>
    /\ dirs = {}
    /\ firewall \in {{}, Rules}
    /\ host \in LockHosts

\* calls of the public functions of lockdown.py in any order
NextLock ==
    \/ Enable
    \/ Release
    \/ EmergencyCleanup

SpecLock == InitLock /\ [][NextLock]_vars

\* the agent with lockdown.py on every platform, with and without psutil
InitScoped ==
    /\ JudgeIdle
    /\ AgentStart
    /\ host \in {[h EXCEPT !.psutil = ps] : h \in LockHosts, ps \in BOOLEAN}

\* one run on the agent, asynchronous or synchronous, and nothing else
NextScoped ==
    \/ \E q \in AgentPids, l \in AgentLangs, c \in AgentCodes : njobs = 0 /\ RunAsync(q, l, c)
    \/ \E q \in AgentPids, l \in AgentLangs, c \in AgentCodes : njobs = 0 /\ RunLocal(q, l, c)
    \/ \E j \in Runs : AgentStep(j)
    \/ \E j \in Runs : ChildExit(j)
    \/ \E j \in Runs : TimeLimitPasses(j)

SpecScoped == InitScoped /\ [][NextScoped]_vars

\* the agent on every platform: /lockdown and /lockdown-emergency requests in
\* any order, and one run, synchronous or asynchronous, of a program for P1
\* or for P2, whose sample case has no expected output
NextToggle ==
    \/ \E a \in {"enable", "disable"} : ToggleLockdown(a)
    \/ EmergencyLockdownCleanup
    \/ \E q \in {"P1", "P2"} : njobs = 0 /\ RunLocal(q, "python", "sum")
    \/ \E q \in {"P1", "P2"} : njobs = 0 /\ RunAsync(q, "python", "sum")
    \/ \E j \in Runs : PythonStep(j)
    \/ \E j \in Runs : ChildExit(j)

SpecToggle == InitScoped /\ [][NextToggle]_vars

\* the runs requested: a program for P1 that exits within the limits, with
\* the expected output or with another output, then runs for
\* an unknown problem
EvictInputs(n) ==
    IF n = 0
    THEN {[problem_id |-> "P1", language |-> "python", code |-> c] : c \in {"sum", "off"}}
    ELSE {[problem_id |-> UnknownPid, language |-> "python", code |-> "sum"]}

\* up to MaxJobs asynchronous runs at once, cancelled and cleaned up
NextEvict ==
    \/ \E i \in EvictInputs(njobs) : RunAsync(i.problem_id, i.language, i.code)
    \/ \E j \in Runs : PythonStep(j)
    \/ \E j \in Runs : ChildExit(j)
    \/ \E j \in Runs : CancelJob(j)
    \/ CleanupOldJobs

SpecEvict == InitJobs /\ [][NextEvict]_vars

\* the texts normalized: up to MaxLen characters, a digit, a blank, CR and LF
Texts == UNION {[1..n -> {"5", " ", "\r", "\n"}] : n \in 0..MaxLen}

\* normalize of judge.py and normalize_output of executor.py are called with
\* the text t and with t in CR LF style
Normalize(t) ==
    /\ norm' = [text |-> t, crlf |-> ToCRLF(t), judge |-> normalize(t),
                judge_crlf |-> normalize(ToCRLF(t)), agent |-> normalize_output(t),
                called |-> TRUE]
    /\ UNCHANGED <<files, pc, sub, cmd, trace, upd, newdoc, fd, ret, calls, compiled, log,
                   tmpdir, dirs, jobs, wk, child, now, njobs, cleanups, host, lockVars>>

NextNorm == \E t \in Texts : Normalize(t)

SpecNorm == InitJobs /\ [][NextNorm]_vars

\* the submissions and the runs whose working directories are followed
DirSubs == Submissions(Users, {"P1", UnknownPid}, {"python", "cpp", "java"}, {CodeA})

DirInputs ==
    {[problem_id |-> q, language |-> l, code |-> c] :
        q \in {"P1", UnknownPid}, l \in {"python", "cpp", "java"}, c \in {"sum", "slow"}}

\* either host at work: two requests at once on the central judge, one call
\* each, or two runs at once on the agent, each of them synchronous or
\* asynchronous
NextDirs ==
    \/ \E p \in Procs, s \in DirSubs : njobs = 0 /\ calls[p] = 0 /\ Submit(p, s)
    \/ \E p \in Procs : Step(p)
    \/ \E i \in DirInputs :
          /\ \A p \in Procs : calls[p] = 0
          /\ njobs < 2
          /\ RunAsync(i.problem_id, i.language, i.code)
    \/ \E i \in DirInputs :
          /\ \A p \in Procs : calls[p] = 0
          /\ njobs < 2
          /\ RunLocal(i.problem_id, i.language, i.code)
    \/ \E j \in Runs : AgentStep(j)
    \/ \E j \in Runs : ChildExit(j)
    \/ \E j \in Runs : TimeLimitPasses(j)

SpecDirs == InitJobs /\ [][NextDirs]_vars

-----------------------------------------------------------------------------
(* The claims *)

\* the scoreboard as the next load_json(SCOREBOARD_FILE) reads it
Persisted == load_json(files["board"])

AcceptedCount(entry) ==
    Cardinality({q \in DOMAIN entry.problems_solved :
                    entry.problems_solved[q].verdict = "Accepted"})

HasRecord(board, user, pid) ==
    user \in DOMAIN board /\ pid \in DOMAIN board[user].problems_solved

\* the request of slot p has ended, with a result or an exception
Ended(p) == pc[p] = "idle" /\ calls[p] > 0

\* C1: every entry of the persisted scoreboard has score = 100 times the
\* number of its problems whose current record is Accepted.
C1_ScoreInvariant ==
    \A u \in DOMAIN Persisted : Persisted[u].score = 100 * AcceptedCount(Persisted[u])

\* C2: first-accept-wins: a save of a verdict other than Accepted, for a
\* participant and problem whose stored record is Accepted, leaves the
\* participant's stored records and score as they were.
C2_FirstAcceptWins ==
    [][\A p \in Procs :
          (/\ pc[p] = "sv_replace" /\ pc'[p] = "jv_return"
           /\ upd[p].verdict # "Accepted"
           /\ HasRecord(Persisted, sub[p].participant_name, sub[p].problem_id)
           /\ Persisted[sub[p].participant_name].problems_solved[sub[p].problem_id].verdict
                  = "Accepted")
          => (/\ sub[p].participant_name \in DOMAIN Persisted'
              /\ Persisted'[sub[p].participant_name] = Persisted[sub[p].participant_name])]_vars

\* C3: the update is idempotent: applied again to the board it produced, with
\* the same participant, problem, verdict, details and code, it gives that board.
C3_UpdateIdempotent ==
    \A p \in Procs :
        pc[p] = "sv_open"
        => UpdateBoard(newdoc[p], sub[p], upd[p].verdict, upd[p].details, upd[p].plag)
               = newdoc[p]

\* C4: with one writer that may be killed at any point, the scoreboard file is
\* always missing or a complete document, and it changes only by becoming the
\* complete document of the save in progress.
C4_AtomicPersistence ==
    /\ [](files["board"].st = "file" => ValidJson(files["board"]))
    /\ [][\/ files'["board"] = files["board"]
          \/ \E p \in Procs : pc[p] = "sv_replace" /\ files'["board"] = CompleteFile(newdoc[p])]_vars

\* C4, its case: the process was killed between the temporary write and the
\* rename; the scoreboard file still holds the complete previous document.
C4_Witness ==
    /\ pc[1] = "idle" /\ ret[1].kind = "killed"
    /\ ValidJson(files["tmp"]) /\ ValidJson(files["board"])
    /\ files["tmp"] # files["board"]

\* the record the update of slot p writes
RecordOf(p) == Record(upd[p].verdict, sub[p].code, upd[p].details)

\* C5: when two concurrent calls for different (participant, problem) pairs
\* have both returned, the persisted scoreboard holds the record of each.
C5_NoLostUpdate ==
    (/\ \A p \in Procs : Ended(p) /\ ret[p].kind = "result"
     /\ <<sub[1].participant_name, sub[1].problem_id>>
            # <<sub[2].participant_name, sub[2].problem_id>>)
    => \A p \in Procs :
           /\ HasRecord(Persisted, sub[p].participant_name, sub[p].problem_id)
           /\ Persisted[sub[p].participant_name].problems_solved[sub[p].problem_id] = RecordOf(p)

\* C6: under concurrent updates the scoreboard file, when it exists, is at
\* every moment a complete document.
C6_BoardFileComplete == files["board"].st = "file" => ValidJson(files["board"])

\* C7: once the verdict of a submission is computed, judge_and_verify ends by
\* returning it, whatever happens in update_scoreboard.
C7_UpdateFailureAbsorbed ==
    \A p \in Procs :
        (Ended(p) /\ upd[p].verdict # "")
        => (ret[p].kind = "result" /\ ret[p].verdict = upd[p].verdict)

Last(q) == q[Len(q)]

\* C8: the test cases run in the order sample then hidden; no case runs after
\* a case that did not pass; the verdict returned is that of the first case
\* that did not pass, with its 1-based number in the details; Accepted means
\* every case ran and passed.
C8_ShortCircuit ==
    \A p \in Procs :
        LET pid == sub[p].problem_id
            all == IF pid \in DOMAIN Problems
                   THEN Problems[pid].sample_test_cases \o Problems[pid].hidden_test_cases
                   ELSE <<>>
            failed == trace[p] # <<>> /\ Last(trace[p]).result \notin {"Passed", "raised"}
        IN  /\ Len(trace[p]) <= Len(all)
            /\ \A k \in 1..Len(trace[p]) :
                   trace[p][k].test = k /\ trace[p][k].input = all[k].input
            /\ \A k \in 1..(Len(trace[p]) - 1) : trace[p][k].result = "Passed"
            /\ failed => /\ pc[p] # "rt_loop"
                         /\ upd[p].verdict = Last(trace[p]).result
                         /\ Len(upd[p].details) >= 2
                         /\ upd[p].details[1] = "Failed on test "
                         /\ upd[p].details[2] = ToString(Len(trace[p]))
            /\ (Ended(p) /\ ret[p].kind = "result" /\ failed)
                   => ret[p] = Result(upd[p].verdict, upd[p].details)
            /\ (upd[p].verdict = "Accepted")
                   => Len(trace[p]) = Len(all) /\ ~failed

\* C8, its case: three test cases, the second fails, the third never runs
C8_Witness ==
    /\ Ended(1) /\ ret[1].kind = "result"
    /\ sub[1].problem_id \in DOMAIN Problems
    /\ Len(Tests(sub[1].problem_id)) = 3
    /\ Len(trace[1]) = 2
    /\ trace[1][1].result = "Passed" /\ trace[1][2].result = "Wrong Answer"
    /\ ret[1].verdict = "Wrong Answer" /\ ret[1].details = <<"Failed on test ", "2">>

\* C9: a problem that exists and has no test case is judged System Error.
C9_EmptyTestsSystemError ==
    \A p \in Procs :
        (/\ Ended(p) /\ ret[p].kind = "result"
         /\ sub[p].problem_id \in DOMAIN Problems
         /\ Tests(sub[p].problem_id) = <<>>)
        => ret[p].verdict = "System Error"

\* C10: every call of judge_and_verify ends with a result object that carries
\* a verdict of the verdict set; none ends with an exception.
C10_AlwaysResult ==
    \A p \in Procs : Ended(p) => (ret[p].kind = "result" /\ ret[p].verdict \in Verdicts)

\* C11: the plagiarism check runs before any execution: for a submission judged
\* Plagiarism Detected, g++ was never started, no command was built and no
\* test case was run.
C11_ScreenBeforeExecution ==
    \A p \in Procs :
        (\/ upd[p].verdict = "Plagiarism Detected"
         \/ (ret[p].kind = "result" /\ ret[p].verdict = "Plagiarism Detected"))
        => (~compiled[p] /\ cmd[p] = "" /\ trace[p] = <<>>)

\* C11, its case: a call has returned Plagiarism Detected
C11_Witness ==
    /\ Ended(1) /\ ret[1].kind = "result" /\ ret[1].verdict = "Plagiarism Detected"
    /\ calls[1] = 2 /\ trace[1] = <<>>

\* C12: a submission whose source has ratio >= 0.90 with the source of any
\* submission stored earlier for the same problem by another participant is
\* judged Plagiarism Detected, also when that participant has resubmitted since.
C12_AnyEarlierSubmissionFlags ==
    \A p \in Procs :
        (/\ Ended(p) /\ ret[p].kind = "result"
         /\ \E k \in 1..Len(log) :
                /\ log[k].participant_name # sub[p].participant_name
                /\ log[k].problem_id = sub[p].problem_id
                /\ AtLeastThreshold(ratio(sub[p].code, log[k].code)))
        => ret[p].verdict = "Plagiarism Detected"

\* the condition of C13, on a submission and a scoreboard: some other
\* participant has a record for the problem, with non-empty code, at ratio >= 9/10
SimilarOther(s, board) ==
    \E u \in DOMAIN board :
        /\ u # s.participant_name
        /\ s.problem_id \in DOMAIN board[u].problems_solved
        /\ LET c == board[u].problems_solved[s.problem_id].code
               r == ratio(s.code, c)
           IN  c # <<>> /\ 10 * r[1] >= 9 * r[2]

\* C13: check_plagiarism flags a submission if and only if some other
\* participant has a record for the same problem with non-empty code at ratio
\* >= 0.90 (exactly 0.90 is flagged, below is not, an own record never counts).
C13_FlagIffSimilarOther ==
    \A p \in Procs :
        pc[p] \in {"rt_mkdir", "rt_setup", "rt_loop", "us_load"}
        => (upd[p].plag <=> SimilarOther(sub[p], Persisted))

\* C13, its case: flagged on a ratio of exactly 0.90, by a participant who has
\* an own record for the problem as well
C13_Witness ==
    /\ pc[1] = "us_load" /\ upd[1].plag
    /\ HasRecord(Persisted, sub[1].participant_name, sub[1].problem_id)
    /\ \A u \in DOMAIN Persisted \ {sub[1].participant_name} :
           /\ HasRecord(Persisted, u, sub[1].problem_id)
           /\ ratio(sub[1].code, Persisted[u].problems_solved[sub[1].problem_id].code)
                  = <<18, 20>>

\* the score of a participant on a board, 0 for a participant without entry
ScoreOf(board, user) == IF user \in DOMAIN board THEN board[user].score ELSE 0

\* C14: a Plagiarism Detected result is stored as the submitter's record for the
\* problem, with its details; storing it leaves the submitter's score as it
\* was, and a participant whose stored submissions were all flagged has score 0.
C14_PlagiarismRecordedNoScore ==
    /\ [](\A p \in Procs :
            (Ended(p) /\ ret[p].kind = "result" /\ ret[p].verdict = "Plagiarism Detected")
            => /\ HasRecord(Persisted, sub[p].participant_name, sub[p].problem_id)
               /\ ret[p].details # <<>>
               /\ Persisted[sub[p].participant_name].problems_solved[sub[p].problem_id]
                      = [verdict |-> "Plagiarism Detected", code |-> sub[p].code,
                         details |-> ret[p].details])
    /\ [](\A u \in DOMAIN Persisted :
            (\A k \in 1..Len(log) :
                log[k].participant_name = u => log[k].verdict = "Plagiarism Detected")
            => Persisted[u].score = 0)
    /\ [][\A p \in Procs :
            upd[p].verdict = "Plagiarism Detected"
            => ScoreOf(Persisted', sub[p].participant_name)
                   = ScoreOf(Persisted, sub[p].participant_name)]_vars

\* C14, its case: the first submission was Accepted, the two submissions of
\* the other participant were both flagged; that participant has score 0
C14_Witness ==
    /\ Ended(1) /\ ret[1].kind = "result" /\ ret[1].verdict = "Plagiarism Detected"
    /\ Len(log) = 3
    /\ log[1].verdict = "Accepted" /\ log[2].verdict = "Plagiarism Detected"
    /\ log[2].participant_name # log[1].participant_name
    /\ log[3].participant_name = log[2].participant_name
    /\ Persisted[log[2].participant_name].score = 0
    /\ Persisted[log[1].participant_name].score = 100

\* the submission of slot p copies the first stored one: same problem, same
\* source, another participant, the first one having been Accepted
CopiesFirst(p) ==
    /\ Len(log) >= 1 /\ log[1].verdict = "Accepted"
    /\ sub[p].participant_name # log[1].participant_name
    /\ sub[p].problem_id = log[1].problem_id
    /\ sub[p].code = log[1].code

\* C15: from an empty scoreboard, A's correct solution for P is Accepted and
\* gives A score 100; the identical code then submitted by another participant
\* B is judged Plagiarism Detected, stored under B's entry with score 0, and
\* A's record and score are as they were.
C15_EndToEnd ==
    /\ (calls[1] = 1 /\ Ended(1) /\ ret[1].kind = "result" /\ ret[1].verdict = "Accepted")
       => Persisted = (sub[1].participant_name :>
                         [score |-> 100,
                          problems_solved |-> (sub[1].problem_id :>
                              [verdict |-> "Accepted", code |-> sub[1].code])])
    /\ (calls[1] = 2 /\ Ended(1) /\ CopiesFirst(1))
       => /\ ret[1].kind = "result" /\ ret[1].verdict = "Plagiarism Detected"
          /\ ret[1].details # <<>>
          /\ Persisted = (log[1].participant_name :>
                            [score |-> 100,
                             problems_solved |-> (log[1].problem_id :>
                                 [verdict |-> "Accepted", code |-> log[1].code])])
                         @@ (sub[1].participant_name :>
                            [score |-> 0,
                             problems_solved |-> (sub[1].problem_id :>
                                 [verdict |-> "Plagiarism Detected", code |-> sub[1].code,
                                  details |-> ret[1].details])])

\* C15, its case: the second call, a copy of the Accepted first one, has returned
C15_Witness ==
    /\ calls[1] = 2 /\ Ended(1) /\ CopiesFirst(1)
    /\ Len(log) = 2 /\ log[2].verdict = "Plagiarism Detected"
    /\ ret[1].details = <<"Submission ", sub[1].participant_name, " is ", "100.00%",
                          " similar to ", log[1].participant_name>>

\* C18: in the central judge, a submission whose program exceeds the problem's
\* memory_limit on a test case it ran is judged Memory Limit Exceeded.
C18_MemoryLimitVerdict ==
    \A p \in Procs :
        (/\ Ended(p) /\ ret[p].kind = "result"
         /\ sub[p].problem_id \in DOMAIN Problems
         /\ \E k \in 1..Len(trace[p]) :
                trace[p][k].rss_mb > Problems[sub[p].problem_id].memory_limit)
        => ret[p].verdict = "Memory Limit Exceeded"

\* the sandbox of run j has started a child and has returned its result
SandboxReturned(j) ==
    /\ wk[j].pc \in {"sb_finally", "w_final", "w_cleanup", "done"}
    /\ child[j].state # "none"

\* C16: in the sandbox of the agent, a child that has not exited within the
\* time limit is killed and the outcome is time_limit_exceeded, with or
\* without memory polling (unless the child was killed for its memory).
C16_TimeLimitEnforced ==
    \A j \in Runs :
        (/\ SandboxReturned(j) /\ child[j].late
         /\ wk[j].result.status # "memory_limit_exceeded")
        => (wk[j].result.status = "time_limit_exceeded" /\ child[j].state = "killed")

\* C17: with psutil at hand, a run whose process was measured above the
\* memory limit of the problem is killed at once and the sandbox returns
\* memory_limit_exceeded with the peak measured
C17_MemoryLimitEnforced ==
    \A j \in Runs :
        (SandboxReturned(j) /\ host.psutil /\ wk[j].max_memory > MemLimit(j))
        => /\ wk[j].result.status = "memory_limit_exceeded"
           /\ wk[j].result.memory_usage = wk[j].max_memory
           /\ child[j].state = "killed"

\* C19: a run of the agent's executor in which the toolchain was missing
\* (g++ or python not found) or the host failed to launch the child ends with
\* status error, not with compilation_error or runtime_error.
C19_SystemFailureIsError ==
    \A j \in Runs :
        (wk[j].pc \in {"w_cleanup", "done"} /\ wk[j].fault # "none")
        => wk[j].result.status = "error"

\* C20: the progress of a job never decreases, whatever the interleaving of
\* the worker's updates with poll and cancel requests.
C20_ProgressMonotone ==
    [][\A j \in DOMAIN jobs \cap DOMAIN jobs' : jobs'[j].progress >= jobs[j].progress]_vars

\* C21: cancel on a job below progress 100 makes it cancelled at progress 100
\* with completed_at set and touches no other record; cancel on a job at
\* progress 100 changes no record; cancel on an unknown id answers 404 and
\* changes no record
C21_CancelEffect ==
    [][\A j \in Runs :
         CancelJob(j) =>
            IF j \notin DOMAIN jobs
            THEN jobs' = jobs /\ cancel_job_response(j)[1] = 404
            ELSE IF jobs[j].progress >= 100
            THEN jobs' = jobs /\ cancel_job_response(j) = <<200, "Job already completed">>
            ELSE /\ DOMAIN jobs' = DOMAIN jobs
                 /\ jobs'[j].status = "cancelled"
                 /\ jobs'[j].progress = 100
                 /\ jobs'[j].completed_at = now /\ now > 0
                 /\ \A k \in DOMAIN jobs \ {j} : jobs'[k] = jobs[k]
                 /\ cancel_job_response(j) = <<200, "Job cancelled">>]_vars

\* a job that cancel has marked
C21_Witness ==
    \E j \in DOMAIN jobs :
        jobs[j].status = "cancelled" /\ jobs[j].progress = 100 /\ jobs[j].completed_at > 0

\* the steps by which run j goes on: its thread, its child, the time limit
WorkerMoves(j) == AgentStep(j) \/ ChildExit(j) \/ TimeLimitPasses(j)

\* run j can go on no further: its thread has ended, or it repeats a step
\* that changes nothing
Halted(j) == ~ENABLED <<WorkerMoves(j)>>_vars

TerminalStatuses ==
    {"success", "wrong_answer", "runtime_error", "time_limit_exceeded",
     "memory_limit_exceeded", "compilation_error", "error", "cancelled"}

\* C22: every submitted job reaches progress 100 with a terminal status,
\* whatever its child does; as a property of finite runs: a job whose run can
\* go on no further is at progress 100 with a terminal status
C22_EveryJobCompletes ==
    \A j \in DOMAIN jobs :
        Halted(j) => (jobs[j].progress = 100 /\ jobs[j].status \in TerminalStatuses)

\* C23: in every reachable state a job at progress 100 carries completed_at
\* (completed_at = 0 stands for a record without the key)
C23_CompletedAtWithProgress100 ==
    \A j \in DOMAIN jobs : jobs[j].progress >= 100 => jobs[j].completed_at > 0

\* C24: whenever cleanup_old_jobs removes jobs, no removed job finished later
\* than a completed job that is retained, polled or not
C24_OldestCompletedFirst ==
    [][\A r \in DOMAIN jobs \ DOMAIN jobs' :
         \A k \in DOMAIN jobs' \cap DOMAIN jobs :
            jobs[k].progress >= 100 => jobs[r].finished_at <= jobs[k].finished_at]_vars

\* C25: a step of the worker of job j leaves the record of every other job
\* in the store, unchanged
C25_WorkerWritesOwnRecord ==
    [][\A j \in Runs :
         AgentStep(j) => \A k \in DOMAIN jobs \ {j} : k \in DOMAIN jobs' /\ jobs'[k] = jobs[k]]_vars

\* two workers past their first update, both records written
C25_Witness ==
    /\ DOMAIN jobs = {1, 2}
    /\ wk[1].pc \notin {"none", "w_init", "done"} /\ wk[2].pc \notin {"none", "w_init", "done"}
    /\ jobs[1].progress > 0 /\ jobs[2].progress > 0
    /\ jobs[1].progress # jobs[2].progress

\* C26: enable() called while the lockdown is active changes neither
\* _lockdown_state nor the firewall, runs no firewall command and returns
\* the current rules_applied
C26_EnableIdempotent ==
    [][(lockdown_state.active /\ Enable) =>
          /\ lockdown_state' = lockdown_state
          /\ firewall' = firewall
          /\ lcall'.cmds = {} /\ ~lcall'.raised
          /\ lcall'.ret = lockdown_state.rules_applied]_vars

\* enable() has returned True without a command: the rules were applied before
C26_Witness ==
    /\ lcall.op = "enable" /\ lcall.cmds = {} /\ lcall.ret
    /\ lockdown_state = Applied

\* C27: enable() called while inactive by a process without privilege leaves
\* the demo state (active, rules not applied), touches no rule and returns
\* False; and rules_applied becomes true only by an enable() that has added
\* both rules and verified them
C27_DemoWithoutPrivilege ==
    [][/\ (~lockdown_state.active /\ ~host.admin /\ Enable) =>
             /\ lockdown_state' = Demo
             /\ firewall' = firewall
             /\ ~lcall'.ret /\ ~lcall'.raised
       /\ (lockdown_state'.rules_applied /\ ~lockdown_state.rules_applied) =>
             /\ lcall'.op = "enable" /\ lcall'.ret
             /\ {"add", "verify"} \subseteq lcall'.cmds
             /\ Rules \subseteq firewall']_vars

\* the demo state, entered by enable() without privilege
C27_Witness ==
    /\ ~host.admin
    /\ lcall.op = "enable" /\ ~lcall.ret
    /\ lockdown_state = Demo

\* C28: a privileged enable() that has run its add commands and has not ended
\* with verified rules (an add command or the verification failed) does not
\* return True and leaves the state inactive, on every platform
C28_FailedEnableIsInactive ==
    [][(/\ ~lockdown_state.active /\ host.admin /\ Enable
        /\ "add" \in lcall'.cmds /\ lockdown_state' # Applied) =>
          /\ ~lcall'.ret
          /\ ~lockdown_state'.active]_vars

\* C29: release() while inactive changes nothing and returns True; release()
\* while active leaves active = false and rules_applied = false, also when the
\* removal or its verification fails; rules_applied is never true while
\* active is false
C29_ReleaseClearsState ==
    /\ [](lockdown_state.rules_applied => lockdown_state.active)
    /\ [][Release =>
            IF ~lockdown_state.active
            THEN /\ lockdown_state' = lockdown_state /\ firewall' = firewall
                 /\ lcall'.ret /\ lcall'.cmds = {}
            ELSE lockdown_state' = Inactive]_vars

\* C30: emergency_cleanup() ends with active = false and rules_applied = false
\* from every state, with or without privilege, whether or not the rules
\* could be removed; a privileged process with a firewall tool runs the
\* delete commands whatever the tracked state was
C30_EmergencyCleanup ==
    [][EmergencyCleanup =>
          /\ lockdown_state' = Inactive
          /\ ~lcall'.raised
          /\ (host.admin /\ (host.system = "Windows" \/ host.tool # "none"))
                => "delete" \in lcall'.cmds]_vars

\* an emergency cleanup that ran the delete commands and could not remove the rules
C30_Witness ==
    /\ lcall.op = "emergency_cleanup" /\ "delete" \in lcall.cmds
    /\ "block" \in firewall
    /\ lockdown_state = Inactive

\* the positions of the thread of a run after its sandbox, if it entered one
AfterSandbox == {"w_final", "w_except", "w_cleanup", "w_die", "done", "dead"}

\* C31: with lockdown.py at hand, a child is started only after enable() has
\* returned, and once the sandbox of a single execution has been left, by
\* whatever path, release() has run: the lockdown is not active
C31_ScopedLockdown ==
    \A j \in Runs :
        /\ (host.lockdown /\ child[j].state # "none") => wk[j].lockdown_enabled
        /\ wk[j].pc \in AfterSandbox => ~lockdown_state.active

\* a run whose child was killed for its memory has ended, the lockdown released
C31_Witness ==
    \E j \in Runs :
        /\ wk[j].pc = "done" /\ wk[j].lockdown_enabled
        /\ child[j].state = "killed"
        /\ wk[j].result.status = "memory_limit_exceeded"
        /\ ~lockdown_state.active

\* run b has its child running under a lockdown it has enabled, and the
\* lockdown is not active
RunsUnlocked(b) ==
    /\ child[b].state = "running"
    /\ wk[b].lockdown_enabled
    /\ ~lockdown_state.active

\* run a has enabled the lockdown and has released it
HasReleased(a) == wk[a].lockdown_enabled /\ wk[a].pc \in AfterSandbox

\* C32: with two executions at once a child can run while the lockdown is
\* inactive (C32_Witness), and whenever that happens another execution has
\* released the lockdown the two shared
C32_ReleasedByOther ==
    \A b \in Runs : RunsUnlocked(b) => \E a \in Runs \ {b} : HasReleased(a)

\* the child of b runs with the lockdown inactive after a has released it
C32_Witness ==
    \E a, b \in Runs : a # b /\ RunsUnlocked(b) /\ HasReleased(a)

\* the working directories of the executions in progress
Held ==
    ({tmpdir[p] : p \in Procs}
     \cup {wk[j].exec_folder : j \in {k \in Runs : wk[k].pc \notin {"none", "done", "dead"}}})
    \ {NoDir}

\* run_test_cases of slot p returns or raises in this step
JudgeExit(p) == pc[p] \in InRun /\ pc'[p] \notin InRun

\* run_code_locally or run_code_and_update_status of run j returns or raises
\* in this step
AgentExit(j) == wk[j].pc \notin {"none", "done", "dead"} /\ wk'[j].pc \in {"done", "dead"}

\* C33: the working directory of an execution is removed on every exit path
\* of run_test_cases, run_code_locally and run_code_and_update_status: when
\* the operation returns or raises, its working directory does not exist, and
\* no directory exists that is not the one of an execution still in progress.
C33_WorkingDirectoryRemoved ==
    /\ [](dirs \subseteq Held)
    /\ [][/\ \A p \in Procs : JudgeExit(p) => tmpdir[p] # NoDir /\ tmpdir[p] \notin dirs'
          /\ \A j \in Runs : AgentExit(j) /\ wk[j].exec_folder # NoDir
                                => wk[j].exec_folder \notin dirs']_vars

\* C33, its case: run_code_locally has returned through its exception
\* handler, the launch of g++ having failed, and the working directory it had
\* created is gone
C33_Witness ==
    \E j \in Runs : /\ wk[j].pc = "done" /\ wk[j].mode = "sync"
                     /\ wk[j].fault = "host" /\ wk[j].result.status = "error"
                     /\ wk[j].exec_folder # NoDir
                     /\ wk[j].exec_folder \notin dirs

\* C34: no two executions share a working directory: two executions in
\* progress at the same time have different working directories, and the
\* working directory of an execution in progress exists.
C34_DistinctDirectories ==
    /\ \A p, q \in Procs : p # q /\ tmpdir[p] # NoDir => tmpdir[p] # tmpdir[q]
    /\ \A p \in Procs : tmpdir[p] # NoDir => tmpdir[p] \in dirs
    /\ \A i, j \in Runs :
          /\ i # j
          /\ wk[i].pc \notin {"none", "done", "dead"} /\ wk[i].exec_folder # NoDir
          /\ wk[j].pc \notin {"none", "done", "dead"}
          => wk[i].exec_folder # wk[j].exec_folder
    /\ \A j \in Runs : wk[j].pc \notin {"none", "done", "dead"} /\ wk[j].exec_folder # NoDir
                         => wk[j].exec_folder \in dirs

\* the sandbox of run j returns in this step from the statements that follow
\* process.communicate: the child has exited within the time limit and was
\* not killed for its memory
VerifiedExit(j) == wk[j].pc = "sb_90" /\ wk'[j].pc # "sb_90"

\* C35: on normal exit of the child within the limits the sandbox outcome is
\* determined by exit code and normalized output only: a non-zero exit code
\* gives runtime_error; a zero exit code gives success when the normalized
\* standard output equals the normalized expected output and wrong_answer
\* otherwise, and in both zero-exit cases the output is the raw standard output.
C35_OutcomeFromExitCodeAndOutput ==
    [][\A j \in Runs :
          VerifiedExit(j) =>
            LET expected == Problems[wk[j].problem_id].sample_test_cases[1].output
                r == wk'[j].result
            IN  IF child[j].rc # 0 THEN r.status = "runtime_error"
                ELSE /\ r.output = child[j].out
                     /\ r.status = IF normalize_output(child[j].out) = normalize_output(expected)
                                   THEN "success" ELSE "wrong_answer"]_vars

\* C36 as stated: for every text t, the normalization of t in CR LF style
\* equals the normalization of t.
C36_EveryText ==
    norm.called => norm.judge_crlf = norm.judge

\* no LF of the text t directly follows a CR
NoCRLF(t) == \A i \in 1..(Len(t) - 1) : ~(t[i] = "\r" /\ t[i + 1] = "\n")

\* C36: output normalization makes the line-terminator style irrelevant: for
\* every text t in which no LF directly follows a CR, the normalization of t
\* with each LF written as CR LF equals the normalization of t;
\* normalize("5\r\n") = normalize("5\n") = "5"; and normalize of the central
\* judge and normalize_output of the agent return the same result for every
\* text.
C36_LineTerminatorIrrelevant ==
    norm.called =>
        /\ NoCRLF(norm.text) => norm.judge_crlf = norm.judge
        /\ norm.text = <<"5", "\n">> => norm.judge = <<"5">> /\ norm.judge_crlf = <<"5">>
        /\ norm.text = <<"5", "\r", "\n">> => norm.judge = <<"5">>
        /\ norm.agent = norm.judge

\* C36, its case: a text of two lines with blanks around it was normalized in
\* both styles, and the CR LF inside the one became the LF of the other
C36_Witness ==
    /\ norm.called
    /\ norm.text = <<" ", "5", "\n", "5">>
    /\ norm.crlf = <<" ", "5", "\r", "\n", "5">>
    /\ norm.judge_crlf = <<"5", "\n", "5">>
    /\ norm.agent = <<"5", "\n", "5">>

\* C37: a cancelled job stays cancelled: once cancel_job has set the status
\* of a job to 'cancelled', no later step changes the status or the progress
\* of the job, so that every later poll finds the status 'cancelled'.
C37_CancelledStaysCancelled ==
    [][\A j \in DOMAIN jobs :
          jobs[j].status = "cancelled" /\ j \in DOMAIN jobs'
          => /\ jobs'[j].status = "cancelled"
             /\ jobs'[j].progress = jobs[j].progress]_vars

\* the thread of run j has ended
WorkerFinished(j) == wk[j].pc \in {"done", "dead"}

\* C38: eviction never interferes with a live worker: when a job record is
\* deleted its progress is 100 and the worker of the job has finished, and no
\* worker is ended by the KeyError of a status update on its own record.
C38_EvictionSparesLiveWorkers ==
    /\ [][\A j \in DOMAIN jobs :
             j \notin DOMAIN jobs' => jobs[j].progress = 100 /\ WorkerFinished(j)]_vars
    /\ [](\A j \in Runs : wk[j].pc \notin {"w_die", "dead"})

\* C39: the lockdown toggle of the agent round-trips: starting from inactive,
\* an 'enable' request followed by a 'disable' request leaves the lockdown
\* module inactive, with or without privilege; and LOCKDOWN_ACTIVE is true
\* exactly when the state of the lockdown module is active, also after local
\* executions have run enable and release.
C39_ToggleRoundTrip ==
    /\ toggled = <<"enable", "disable">> => ~lockdown_state.active
    /\ LOCKDOWN_ACTIVE <=> lockdown_state.active

\* the participants u and v hold Accepted records for the problem q in the
\* board, with non-empty codes at a similarity ratio of 0.90 or more
AcceptedAlike(board, u, v, q) ==
    /\ HasRecord(board, u, q) /\ HasRecord(board, v, q)
    /\ LET a == board[u].problems_solved[q]
           b == board[v].problems_solved[q]
           r == ratio(a.code, b.code)
       IN  /\ a.verdict = "Accepted" /\ b.verdict = "Accepted"
           /\ a.code # <<>> /\ b.code # <<>>
           /\ 10 * r[1] >= 9 * r[2]

\* C40: plagiarism screening is not defeated by concurrency: of two concurrent
\* judge_and_verify calls by two different participants with identical
\* non-empty code for the same problem at most one ends with Accepted, and in
\* no reachable scoreboard two different participants hold Accepted records
\* for the same problem whose codes have a similarity ratio of 0.90 or more.
C40_ScreeningUnderConcurrency ==
    /\ (/\ \A p \in Procs : Ended(p) /\ ret[p].kind = "result"
        /\ sub[1].participant_name # sub[2].participant_name
        /\ sub[1].problem_id = sub[2].problem_id
        /\ sub[1].code = sub[2].code /\ sub[1].code # <<>>)
       => ~(ret[1].verdict = "Accepted" /\ ret[2].verdict = "Accepted")
    /\ files["board"].st = "file" /\ ValidJson(files["board"]) =>
          \A u, v \in DOMAIN Persisted : \A q \in DOMAIN Problems :
              u # v => ~AcceptedAlike(Persisted, u, v, q)

=============================================================================
